---- MODULE Spec2Model ----
(***************************************************************************)
(* py-to-proto: the recursive schema-to-descriptor converter               *)
(* (ConverterBase with its JTD and dataclass adapters) and the descriptor  *)
(* pool merger (safe_add_fd_to_pool and the structural comparison).        *)
(*                                                                         *)
(* A name is a sequence of one-character strings, so that str.lower() and  *)
(* to_upper_camel() are computed character by character. A qualified name  *)
(* is a sequence of names (its dot-separated components).                  *)
(***************************************************************************)
EXTENDS Integers, Sequences, FiniteSets, TLC

VARIABLES
  pool,    \* the target descriptor pool
  origin,  \* per file a conversion added: the call that added it
  last,    \* the last conversion call: arguments, outcome, pool before
  input    \* the call a single-conversion run makes

vars == <<pool, origin, last, input>>

----------------------------------------------------------------------------
(* Characters and names *)

LowerLetters == <<"a","b","c","d","e","f","g","h","i","j","k","l","m",
                  "n","o","p","q","r","s","t","u","v","w","x","y","z">>

UpperLetters == <<"A","B","C","D","E","F","G","H","I","J","K","L","M",
                  "N","O","P","Q","R","S","T","U","V","W","X","Y","Z">>

IsLower(c) == \E i \in DOMAIN LowerLetters : LowerLetters[i] = c

IsUpper(c) == \E i \in DOMAIN UpperLetters : UpperLetters[i] = c

IsLetter(c) == IsLower(c) \/ IsUpper(c)

\* str.upper() on one character
CharUpper(c) ==
  IF IsLower(c)
  THEN UpperLetters[CHOOSE i \in DOMAIN LowerLetters : LowerLetters[i] = c]
  ELSE c

\* str.lower() on one character
CharLower(c) ==
  IF IsUpper(c)
  THEN LowerLetters[CHOOSE i \in DOMAIN UpperLetters : UpperLetters[i] = c]
  ELSE c

\* str.lower()
lower(s) == [i \in DOMAIN s |-> CharLower(s[i])]

\* re.sub("_([a-zA-Z])", lambda pat: pat.group(1).upper(), s): scanned left
\* to right from position i, matches do not overlap
RECURSIVE re_sub_camel(_, _)
re_sub_camel(s, i) ==
  IF i > Len(s) THEN <<>>
  ELSE IF s[i] = "_" /\ i < Len(s) /\ IsLetter(s[i + 1])
       THEN <<CharUpper(s[i + 1])>> \o re_sub_camel(s, i + 2)
       ELSE <<s[i]>> \o re_sub_camel(s, i + 1)

\* utils.to_upper_camel: the first character upper-cased, followed by the
\* substituted string without ITS first character
to_upper_camel(snake_str) ==
  IF snake_str = <<>> THEN snake_str
  ELSE <<CharUpper(snake_str[1])>> \o Tail(re_sub_camel(snake_str, 1))


Range(f) == {f[i] : i \in DOMAIN f}

\* No two positions of the sequence hold the same value
NoDuplicates(seq) == \A i, j \in DOMAIN seq : seq[i] = seq[j] => i = j

----------------------------------------------------------------------------
(* Protobuf descriptor data: google.protobuf.descriptor_pb2 messages as      *)
(* records, FieldDescriptor's label and type enumerators as strings.         *)

LABEL_OPTIONAL == "LABEL_OPTIONAL"
LABEL_REPEATED == "LABEL_REPEATED"

TYPE_BOOL    == "TYPE_BOOL"
TYPE_STRING  == "TYPE_STRING"
TYPE_INT32   == "TYPE_INT32"
TYPE_INT64   == "TYPE_INT64"
TYPE_DOUBLE  == "TYPE_DOUBLE"
TYPE_MESSAGE == "TYPE_MESSAGE"
TYPE_ENUM    == "TYPE_ENUM"

\* An unset FieldDescriptorProto.oneof_index
NoOneof == -1

\* FieldDescriptorProto.type_name: a leading dot marks a fully qualified name
TypeName(dot, path) == [dot |-> dot, path |-> path]

NoTypeName == TypeName(FALSE, <<>>)

\* descriptor_pb2.FieldDescriptorProto(**kwargs); an unset label reads
\* LABEL_OPTIONAL, an unset type_name reads empty
FieldDescriptorProto(name, number, label, type, type_name, oneof_index) ==
  [name |-> name, number |-> number, label |-> label, type |-> type,
   type_name |-> type_name, oneof_index |-> oneof_index]

DescriptorProto(name, field, nested_type, enum_type, oneof_decl, map_entry) ==
  [name |-> name, field |-> field, nested_type |-> nested_type,
   enum_type |-> enum_type, oneof_decl |-> oneof_decl, map_entry |-> map_entry]

EnumDescriptorProto(name, value, allow_alias) ==
  [name |-> name, value |-> value, allow_alias |-> allow_alias]

EnumValueDescriptorProto(name, number) == [name |-> name, number |-> number]

FileDescriptorProto(name, package, dependency, message_type, enum_type) ==
  [name |-> name, package |-> package, dependency |-> dependency,
   message_type |-> message_type, enum_type |-> enum_type, service |-> <<>>]

\* options is the empty MethodOptions: json_to_service sets none
MethodDescriptorProto(name, input_type, output_type, client_streaming, server_streaming) ==
  [name |-> name, input_type |-> input_type, output_type |-> output_type,
   options |-> <<>>, client_streaming |-> client_streaming,
   server_streaming |-> server_streaming]

ServiceDescriptorProto(name, method) == [name |-> name, method |-> method]

\* A FileDescriptorProto with services and no types
ServiceFileDescriptorProto(name, package, dependency, service) ==
  [name |-> name, package |-> package, dependency |-> dependency,
   message_type |-> <<>>, enum_type |-> <<>>, service |-> service]

----------------------------------------------------------------------------
(* google.protobuf.descriptor_pool.DescriptorPool, as safe_add_fd_to_pool    *)
(* and ConverterBase use it: FindFileByName, Add (which builds the file and  *)
(* raises TypeError when it cannot be built), CopyToProto and the lookups of *)
(* types by qualified name. A pool is [files, next]: files maps the names of *)
(* the registered files to their built form, next numbers the registrations  *)
(* so that a live descriptor is identified by the registration that made it. *)

Symbol(full, is_enum, map_entry) ==
  [full |-> full, is_enum |-> is_enum, map_entry |-> map_entry]

EnumSymbols(scope, enums) ==
  {Symbol(scope \o <<enums[i].name>>, TRUE, FALSE) : i \in DOMAIN enums}

\* The message and enum types a message defines, itself included
RECURSIVE MsgSymbols(_, _)
MsgSymbols(scope, m) ==
  LET me == scope \o <<m.name>>
  IN  {Symbol(me, FALSE, m.map_entry)}
      \cup EnumSymbols(me, m.enum_type)
      \cup UNION {MsgSymbols(me, m.nested_type[i]) : i \in DOMAIN m.nested_type}

FileSymbols(fd) ==
  EnumSymbols(fd.package, fd.enum_type)
  \cup UNION {MsgSymbols(fd.package, fd.message_type[i]) : i \in DOMAIN fd.message_type}

PoolSymbols(p) == UNION {FileSymbols(p.files[n].proto) : n \in DOMAIN p.files}

\* The qualified names of a file's services and of their methods
ServiceSymbols(fd) ==
  UNION {{fd.package \o <<fd.service[i].name>>}
         \cup {fd.package \o <<fd.service[i].name, fd.service[i].method[j].name>> :
                 j \in DOMAIN fd.service[i].method} : i \in DOMAIN fd.service}

\* Every qualified name a file defines: one namespace for types, services
\* and methods
DefinedNames(fd) == {s.full : s \in FileSymbols(fd)} \cup ServiceSymbols(fd)

\* The prefixes of the scope under which a relative type name is defined;
\* protobuf searches from the innermost scope outwards
ResolvingScopes(scope, tn, syms) ==
  {k \in 0..Len(scope) : \E s \in syms : s.full = SubSeq(scope, 1, k) \o tn.path}

CanResolve(scope, tn, syms) ==
  IF tn.dot THEN \E s \in syms : s.full = tn.path
  ELSE tn.path # <<>> /\ ResolvingScopes(scope, tn, syms) # {}

ResolvedName(scope, tn, syms) ==
  IF tn.dot THEN tn.path
  ELSE LET ks == ResolvingScopes(scope, tn, syms)
           k  == CHOOSE x \in ks : \A y \in ks : y <= x
       IN  SubSeq(scope, 1, k) \o tn.path

ResolvedSymbol(scope, tn, syms) ==
  CHOOSE s \in syms : s.full = ResolvedName(scope, tn, syms)

IsTypeRef(f) == f.type \in {TYPE_MESSAGE, TYPE_ENUM}

\* proto3 enum rules: at least one value, the first numbered 0, distinct
\* value names, repeated numbers exactly when allow_alias is set
EnumBuilds(e) ==
  /\ e.value # <<>>
  /\ e.value[1].number = 0
  /\ NoDuplicates([i \in DOMAIN e.value |-> e.value[i].name])
  /\ e.allow_alias = ~NoDuplicates([i \in DOMAIN e.value |-> e.value[i].number])

\* The names a message scope defines: its fields, oneofs, nested types,
\* nested enums and (C++ scoping) the values of its nested enums
RECURSIVE EnumValueNames(_)
EnumValueNames(enums) ==
  IF enums = <<>> THEN <<>>
  ELSE [i \in DOMAIN Head(enums).value |-> Head(enums).value[i].name]
       \o EnumValueNames(Tail(enums))

ScopeNames(m) ==
  [i \in DOMAIN m.field |-> m.field[i].name]
  \o m.oneof_decl
  \o [i \in DOMAIN m.nested_type |-> m.nested_type[i].name]
  \o [i \in DOMAIN m.enum_type |-> m.enum_type[i].name]
  \o EnumValueNames(m.enum_type)

EntrySuffix == <<"E", "n", "t", "r", "y">>

\* A field builds when its number is positive, its oneof exists and it is
\* not repeated inside it, and its type reference resolves to a type of the
\* right kind. (The default protobuf runtime takes a reference to a map
\* entry message like one to any other message.)
FieldBuilds(me, m, f, syms) ==
  /\ f.number >= 1
  /\ f.oneof_index = NoOneof
       \/ (f.oneof_index \in 0..(Len(m.oneof_decl) - 1) /\ f.label = LABEL_OPTIONAL)
  /\ IsTypeRef(f) =>
       /\ CanResolve(me, f.type_name, syms)
       /\ LET s == ResolvedSymbol(me, f.type_name, syms)
          IN  s.is_enum = (f.type = TYPE_ENUM)

RECURSIVE MsgBuilds(_, _, _)
MsgBuilds(scope, m, syms) ==
  LET me == scope \o <<m.name>>
  IN  /\ NoDuplicates(ScopeNames(m))
      /\ NoDuplicates([i \in DOMAIN m.field |-> m.field[i].number])
      /\ \A i \in DOMAIN m.field : FieldBuilds(me, m, m.field[i], syms)
      /\ \A o \in 0..(Len(m.oneof_decl) - 1) :
           \E i \in DOMAIN m.field : m.field[i].oneof_index = o
      /\ \A i \in DOMAIN m.enum_type : EnumBuilds(m.enum_type[i])
      /\ \A i \in DOMAIN m.nested_type : MsgBuilds(me, m.nested_type[i], syms)

\* A service builds when its methods have distinct names and their input
\* and output types are messages that resolve
ServiceBuilds(scope, service, syms) ==
  LET me == scope \o <<service.name>>
      IsMessage(tn) == CanResolve(me, tn, syms) /\ ~ResolvedSymbol(me, tn, syms).is_enum
  IN  /\ NoDuplicates([j \in DOMAIN service.method |-> service.method[j].name])
      /\ \A j \in DOMAIN service.method :
           /\ IsMessage(service.method[j].input_type)
           /\ IsMessage(service.method[j].output_type)

\* The types visible while a file is built: its own and its dependencies'
VisibleSymbols(fd, p) ==
  FileSymbols(fd)
  \cup UNION {FileSymbols(p.files[d].proto) : d \in Range(fd.dependency) \cap DOMAIN p.files}

FileBuilds(fd, p) ==
  /\ fd.name \notin DOMAIN p.files
  /\ \A i \in DOMAIN fd.dependency : fd.dependency[i] \in DOMAIN p.files
  /\ NoDuplicates([i \in DOMAIN fd.message_type |-> fd.message_type[i].name]
                  \o [i \in DOMAIN fd.enum_type |-> fd.enum_type[i].name]
                  \o EnumValueNames(fd.enum_type)
                  \o [i \in DOMAIN fd.service |-> fd.service[i].name])
  /\ DefinedNames(fd) \cap UNION {DefinedNames(p.files[n].proto) : n \in DOMAIN p.files} = {}
  /\ \A i \in DOMAIN fd.enum_type : EnumBuilds(fd.enum_type[i])
  /\ \A i \in DOMAIN fd.message_type :
       MsgBuilds(fd.package, fd.message_type[i], VisibleSymbols(fd, p))
  /\ \A i \in DOMAIN fd.service :
       ServiceBuilds(fd.package, fd.service[i], VisibleSymbols(fd, p))

\* The built form of a message: every type reference fully qualified
RECURSIVE BuiltMsg(_, _, _)
BuiltMsg(scope, m, syms) ==
  LET me == scope \o <<m.name>>
  IN  [m EXCEPT
        !.field = [i \in DOMAIN m.field |->
          IF IsTypeRef(m.field[i])
          THEN [m.field[i] EXCEPT
                  !.type_name = TypeName(TRUE, ResolvedName(me, m.field[i].type_name, syms))]
          ELSE m.field[i]],
        !.nested_type = [i \in DOMAIN m.nested_type |->
          BuiltMsg(me, m.nested_type[i], syms)]]

\* The built form of a service: the methods' types fully qualified
BuiltService(scope, service, syms) ==
  LET me == scope \o <<service.name>>
  IN  [service EXCEPT !.method = [j \in DOMAIN service.method |->
        [service.method[j] EXCEPT
           !.input_type = TypeName(TRUE, ResolvedName(me, service.method[j].input_type, syms)),
           !.output_type = TypeName(TRUE, ResolvedName(me, service.method[j].output_type, syms))]]]

BuiltFile(fd, p) ==
  [fd EXCEPT
     !.message_type = [i \in DOMAIN fd.message_type |->
       BuiltMsg(fd.package, fd.message_type[i], VisibleSymbols(fd, p))],
     !.service = [i \in DOMAIN fd.service |->
       BuiltService(fd.package, fd.service[i], VisibleSymbols(fd, p))]]

FindFileByName(p, name) == name \in DOMAIN p.files

\* FileDescriptor.CopyToProto: the registered file as a FileDescriptorProto,
\* with the type names as the pool resolved them
CopyToProto(file) == file.proto

\* DescriptorPool.Add of a file that builds
PoolAdd(p, fd) ==
  [files |-> (fd.name :> [proto |-> BuiltFile(fd, p), gen |-> p.next]) @@ p.files,
   next  |-> p.next + 1]

----------------------------------------------------------------------------
(* utils.py: the structural comparison of two FileDescriptorProtos *)

\* {x.name: x for x in container}: of several entries of one name the last
\* one is kept
ByName(container) ==
  [n \in {container[i].name : i \in DOMAIN container} |->
     container[CHOOSE i \in DOMAIN container :
        /\ container[i].name = n
        /\ \A j \in DOMAIN container : container[j].name = n => j <= i]]

\* zip(a, b): the pairs up to the shorter length
ZipDomain(a, b) == 1..(IF Len(a) <= Len(b) THEN Len(a) ELSE Len(b))

_are_same_enum_descriptor(d1_enums, d2_enums) ==
  LET d1_enum_map == ByName(d1_enums)
      d2_enum_map == ByName(d2_enums)
  IN  /\ DOMAIN d1_enum_map = DOMAIN d2_enum_map
      /\ \A enum_name \in DOMAIN d1_enum_map :
           LET v1 == d1_enum_map[enum_name].value
               v2 == d2_enum_map[enum_name].value
           IN  /\ Len(v1) = Len(v2)
               /\ \A i \in ZipDomain(v1, v2) :
                    v1[i].name = v2[i].name /\ v1[i].number = v2[i].number

\* A comparison of type names that takes the leading dot into account
_are_types_equal(type_1, type_2) == type_1 = type_2

\* str.lstrip("."): the model's type names carry the leading dot as a flag
_are_types_similar(type_1, type_2) == type_1.path = type_2.path

_are_same_method_descriptor(d1_method, d2_method) ==
  /\ _are_types_similar(d1_method.input_type, d2_method.input_type)
  /\ _are_types_similar(d1_method.output_type, d2_method.output_type)
  /\ d1_method.options = d2_method.options
  /\ d1_method.client_streaming = d2_method.client_streaming
  /\ d1_method.server_streaming = d2_method.server_streaming

_are_same_service_descriptor(d1_service, d2_service) ==
  LET d1_methods == ByName(d1_service.method)
      d2_methods == ByName(d2_service.method)
  IN  /\ DOMAIN d1_methods = DOMAIN d2_methods
      /\ \A method_name \in DOMAIN d1_methods :
           _are_same_method_descriptor(d1_methods[method_name], d2_methods[method_name])

_check_service_desc_alignment(d1_service_list, d2_service_list) ==
  LET d1_service_descs == ByName(d1_service_list)
      d2_service_descs == ByName(d2_service_list)
  IN  /\ DOMAIN d1_service_descs = DOMAIN d2_service_descs
      /\ \A svc_name \in DOMAIN d1_service_descs :
           _are_same_service_descriptor(d1_service_descs[svc_name], d2_service_descs[svc_name])

\* A field comparison that takes the field numbers into account as well
_same_fields_numbered(d1, d2) ==
  LET d1_field_descs == ByName(d1.field)
      d2_field_descs == ByName(d2.field)
  IN  /\ DOMAIN d1_field_descs = DOMAIN d2_field_descs
      /\ \A field_name \in DOMAIN d1_field_descs :
           /\ d1_field_descs[field_name].label = d2_field_descs[field_name].label
           /\ d1_field_descs[field_name].type = d2_field_descs[field_name].type
           /\ d1_field_descs[field_name].number = d2_field_descs[field_name].number

\* The fields of both messages keyed by name: same names, and per name the
\* same label and type (numbers, type names and oneofs are not compared)
_same_fields(d1, d2) ==
  LET d1_field_descs == ByName(d1.field)
      d2_field_descs == ByName(d2.field)
  IN  /\ DOMAIN d1_field_descs = DOMAIN d2_field_descs
      /\ \A field_name \in DOMAIN d1_field_descs :
           /\ d1_field_descs[field_name].label = d2_field_descs[field_name].label
           /\ d1_field_descs[field_name].type = d2_field_descs[field_name].type

RECURSIVE _are_same_message_descriptor(_, _)
RECURSIVE _check_message_descs_alignment(_, _)

_are_same_message_descriptor(d1, d2) ==
  /\ _are_same_enum_descriptor(d1.enum_type, d2.enum_type)
  /\ _same_fields(d1, d2)
  /\ (d1.nested_type # <<>> \/ d2.nested_type # <<>>)
       => _check_message_descs_alignment(d1.nested_type, d2.nested_type)

_check_message_descs_alignment(d1_msg_container, d2_msg_container) ==
  LET d1_msg_descs == ByName(d1_msg_container)
      d2_msg_descs == ByName(d2_msg_container)
  IN  /\ DOMAIN d1_msg_descs = DOMAIN d2_msg_descs
      /\ \A msg_name \in DOMAIN d1_msg_descs :
           _are_same_message_descriptor(d1_msg_descs[msg_name], d2_msg_descs[msg_name])

_are_same_file_descriptors(d1, d2) ==
  LET have_same_deps        == d1.dependency = d2.dependency
      are_same_package      == d1.package = d2.package
      have_aligned_enums    == _are_same_enum_descriptor(d1.enum_type, d2.enum_type)
      have_aligned_messages == _check_message_descs_alignment(d1.message_type, d2.message_type)
      have_aligned_services == _check_service_desc_alignment(d1.service, d2.service)
  IN  /\ have_same_deps
      /\ are_same_package
      /\ have_aligned_enums
      /\ have_aligned_messages
      /\ have_aligned_services

----------------------------------------------------------------------------
(* utils.safe_add_fd_to_pool. The result is [err, why, pool, ops]: err is "" *)
(* or the exception raised, ops the pool operations performed, in order.     *)

PoolOp(op, file) == [op |-> op, file |-> file]

\* A merger that replaces the file it found to differ before it raises
safe_add_replace(fd_proto, descriptor_pool) ==
  [err |-> "TypeError", why |-> "conflict",
   pool |-> PoolAdd(descriptor_pool, [fd_proto EXCEPT !.message_type = <<>>,
                                                       !.enum_type = <<>>]),
   ops |-> <<PoolOp("FindFileByName", fd_proto.name)>>]

\* The file exists already with other content: raise TypeError, changing nothing
safe_add_conflict(fd_proto, descriptor_pool) ==
  [err |-> "TypeError", why |-> "conflict", pool |-> descriptor_pool,
   ops |-> <<PoolOp("FindFileByName", fd_proto.name)>>]

\* A merger that adds the file again although it is there already
safe_add_again(fd_proto, descriptor_pool) ==
  [err |-> "", why |-> "noop", pool |-> PoolAdd(descriptor_pool, fd_proto),
   ops |-> <<PoolOp("FindFileByName", fd_proto.name), PoolOp("Add", fd_proto.name)>>]

\* The file exists already with the same content: no further action
safe_add_noop(fd_proto, descriptor_pool) ==
  [err |-> "", why |-> "noop", pool |-> descriptor_pool,
   ops |-> <<PoolOp("FindFileByName", fd_proto.name)>>]

\* A merger whose Add takes any file, buildable or not
safe_add_unchecked(fd_proto, descriptor_pool) ==
  [err |-> "", why |-> "added", pool |-> PoolAdd(descriptor_pool, fd_proto),
   ops |-> <<PoolOp("FindFileByName", fd_proto.name), PoolOp("Add", fd_proto.name)>>]

\* except KeyError: the file does not exist yet, add it; a TypeError of Add
\* is raised again as a TypeError with the hint
safe_add_new(fd_proto, descriptor_pool) ==
  IF FileBuilds(fd_proto, descriptor_pool)
  THEN [err |-> "", why |-> "added", pool |-> PoolAdd(descriptor_pool, fd_proto),
        ops |-> <<PoolOp("FindFileByName", fd_proto.name), PoolOp("Add", fd_proto.name)>>]
  ELSE [err |-> "TypeError", why |-> "add_failed", pool |-> descriptor_pool,
        ops |-> <<PoolOp("FindFileByName", fd_proto.name), PoolOp("Add", fd_proto.name)>>]

safe_add_fd_to_pool(fd_proto, descriptor_pool) ==
  IF FindFileByName(descriptor_pool, fd_proto.name)
  THEN LET existing_fd    == descriptor_pool.files[fd_proto.name]
           existing_proto == CopyToProto(existing_fd)
       IN  IF ~_are_same_file_descriptors(fd_proto, existing_proto)
           THEN safe_add_conflict(fd_proto, descriptor_pool)
           ELSE safe_add_noop(fd_proto, descriptor_pool)
  ELSE safe_add_new(fd_proto, descriptor_pool)

----------------------------------------------------------------------------
(* Live descriptors. A descriptor is [pool, file, full_name, name, is_enum,  *)
(* gen]: the pool and file that own it, and the registration that made it.   *)

Descriptor(pool_id, file, gen, sym) ==
  [pool |-> pool_id, file |-> file, full_name |-> sym.full,
   name |-> sym.full[Len(sym.full)], is_enum |-> sym.is_enum, gen |-> gen]

\* The descriptors of the wanted kind a pool holds under a qualified name
\* (FindMessageTypeByName, FindEnumTypeByName): none is a KeyError
FindTypeByName(p, pool_id, fullname, is_enum) ==
  UNION {{Descriptor(pool_id, n, p.files[n].gen, s) :
            s \in {y \in FileSymbols(p.files[n].proto) :
                     y.full = fullname /\ y.is_enum = is_enum}} :
         n \in DOMAIN p.files}

\* The pool the converter targets, and the process-wide default pool, which
\* owns the well-known types and is a different pool
TargetPoolId == "target"
DefaultPoolId == "default"

GoogleProtobuf == << <<"google">>, <<"protobuf">> >>

TimestampFile == <<"google/protobuf/timestamp.proto">>
StructFile    == <<"google/protobuf/struct.proto">>

timestamp_pb2 ==
  FileDescriptorProto(TimestampFile, GoogleProtobuf, <<>>,
    <<DescriptorProto(<<"Timestamp">>,
        <<FieldDescriptorProto(<<"seconds">>, 1, LABEL_OPTIONAL, TYPE_INT64, NoTypeName, NoOneof),
          FieldDescriptorProto(<<"nanos">>, 2, LABEL_OPTIONAL, TYPE_INT32, NoTypeName, NoOneof)>>,
        <<>>, <<>>, <<>>, FALSE)>>,
    <<>>)

\* google.protobuf.Struct; its own fields play no part in the conversions
struct_pb2 ==
  FileDescriptorProto(StructFile, GoogleProtobuf, <<>>,
    <<DescriptorProto(<<"Struct">>, <<>>, <<>>, <<>>, <<>>, FALSE)>>, <<>>)

EmptyPool == [files |-> <<>>, next |-> 1]

\* A file another pool holds, as a conversion into that pool would have made
\* it: package x, message Ext and enum Kind
ExtFile == <<"e", "x", "t", ".proto">>

ExtPackage == << <<"x">> >>

ext_proto ==
  FileDescriptorProto(ExtFile, ExtPackage, <<>>,
    <<DescriptorProto(<<"E", "x", "t">>,
        <<FieldDescriptorProto(<<"a">>, 1, LABEL_OPTIONAL, TYPE_STRING, NoTypeName, NoOneof)>>,
        <<>>, <<>>, <<>>, FALSE)>>,
    <<EnumDescriptorProto(<<"K", "i", "n", "d">>,
        <<EnumValueDescriptorProto(<<"K0">>, 0)>>, FALSE)>>)

\* descriptor_pool.Default(): the well-known types' files and ext.proto
DefaultPool ==
  PoolAdd(PoolAdd(PoolAdd(EmptyPool, timestamp_pb2), struct_pb2), ext_proto)

\* tests/helpers.temp_dpool: a fresh pool holding struct.proto and
\* timestamp.proto
temp_dpool == PoolAdd(PoolAdd(EmptyPool, struct_pb2), timestamp_pb2)

DefaultDescriptor(fullname, is_enum) ==
  CHOOSE d \in FindTypeByName(DefaultPool, DefaultPoolId, fullname, is_enum) : TRUE

Timestamp == DefaultDescriptor(GoogleProtobuf \o << <<"Timestamp">> >>, FALSE)
Struct    == DefaultDescriptor(GoogleProtobuf \o << <<"Struct">> >>, FALSE)
ExtMessage == DefaultDescriptor(ExtPackage \o << <<"E", "x", "t">> >>, FALSE)
ExtEnum    == DefaultDescriptor(ExtPackage \o << <<"K", "i", "n", "d">> >>, TRUE)

IsDescriptor(x) == "full_name" \in DOMAIN x

\* descriptor.file of a live descriptor
FileOf(descriptor, target) ==
  IF descriptor.pool = DefaultPoolId
  THEN DefaultPool.files[descriptor.file]
  ELSE target.files[descriptor.file]

----------------------------------------------------------------------------
(* The converter's working state while it walks a schema: the target pool,   *)
(* self.imports, and the pool operations performed so far. A step returns    *)
(* [err, val, ctx]; err is "" or the name of the exception raised.           *)

Ctx(p, imports, ops) == [pool |-> p, imports |-> imports, ops |-> ops]

Ok(val, ctx) == [err |-> "", val |-> val, ctx |-> ctx]

Raise(err, ctx) == [err |-> err, ctx |-> ctx]

None == [none |-> TRUE]

Some(v) == [none |-> FALSE, v |-> v]

\* What _convert returns: a type code, a descriptor reference, or a nested
\* enum or message proto
IntVal(code)    == [k |-> "int", code |-> code]
DescVal(d)      == [k |-> "desc", d |-> d]
EnumProtoVal(e) == [k |-> "enum_proto", p |-> e]
MsgProtoVal(m)  == [k |-> "msg_proto", p |-> m]

\* ConverterBase._add_descriptor_imports
_add_descriptor_imports(descriptor, ctx) ==
  LET import_file == descriptor.file
      Added(r) ==
        IF r.err # ""
        THEN Raise(r.err, Ctx(r.pool, ctx.imports, ctx.ops \o r.ops))
        ELSE Ok(DescVal(descriptor),
                Ctx(r.pool, ctx.imports \cup {import_file}, ctx.ops \o r.ops))
  IN  IF descriptor.pool # TargetPoolId
      THEN Added(safe_add_fd_to_pool(CopyToProto(FileOf(descriptor, ctx.pool)),
                                     ctx.pool))
      ELSE Ok(DescVal(descriptor),
              Ctx(ctx.pool, ctx.imports \cup {import_file}, ctx.ops))

----------------------------------------------------------------------------
(* The schema adapters. A JTD schema node is a record with the keys of the   *)
(* JTD dict it stands for: type, values, enum, properties,                   *)
(* optionalProperties, additionalProperties, discriminator, mapping,         *)
(* elements, metadata; dicts with ordered keys (properties, mapping) are     *)
(* sequences of <<key, value>> pairs. A "type" is [marker |-> string] or a   *)
(* descriptor. A dataclass schema node is one of                             *)
(*   [py |-> name]                          a plain Python type              *)
(*   [list |-> T], [dict |-> <<K, V>>]      List[T], Dict[K, V]              *)
(*   [union |-> <<T1, ...>>]                Union[T1, ...]                   *)
(*   [annotated |-> T, annos |-> <<...>>]   Annotated[T, ...]                *)
(*   [enum_cls |-> name, members |-> <<...>>]     an Enum class              *)
(*   [dataclass |-> name, fields |-> <<...>>]     a dataclass                *)
(* or a descriptor; a dataclasses.Field is [name, type, has_default].        *)

JTD == "jtd"
DATACLASS == "dataclass"

Has(entry, key) == key \in DOMAIN entry

Marker(m) == [marker |-> m]

IntType(code) == [int |-> code]

\* A generated message class: its DESCRIPTOR attribute
MessageClass(descriptor) == [DESCRIPTOR |-> descriptor]

\* jtd_to_proto.JTD_TO_PROTO_TYPES (any_pb2.Any left out)
JTD_TO_PROTO_TYPES ==
  [m \in {"boolean", "string", "timestamp", "float64", "int8", "int16",
          "int32", "int64"} |->
     CASE m = "boolean"   -> IntType(TYPE_BOOL)
       [] m = "string"    -> IntType(TYPE_STRING)
       [] m = "timestamp" -> MessageClass(Timestamp)
       [] m = "float64"   -> IntType(TYPE_DOUBLE)
       [] m = "int64"     -> IntType(TYPE_INT64)
       [] OTHER           -> IntType(TYPE_INT32)]

\* dataclass_to_proto.PY_TO_PROTO_TYPES (Any and bytes left out)
PY_TO_PROTO_TYPES ==
  [m \in {"bool", "str", "datetime", "float", "int"} |->
     CASE m = "bool"     -> IntType(TYPE_BOOL)
       [] m = "str"      -> IntType(TYPE_STRING)
       [] m = "datetime" -> MessageClass(Timestamp)
       [] m = "float"    -> IntType(TYPE_DOUBLE)
       [] OTHER          -> IntType(TYPE_INT64)]

type_mapping(ad) == IF ad = JTD THEN JTD_TO_PROTO_TYPES ELSE PY_TO_PROTO_TYPES

\* The key of a type in the type mapping
MappingKey(t) == IF Has(t, "marker") THEN t.marker ELSE t.py

InTypeMapping(ad, t) ==
  /\ Has(t, "marker") \/ Has(t, "py")
  /\ MappingKey(t) \in DOMAIN type_mapping(ad)

NoneType == [py |-> "NoneType"]

\* DataclassConverter._resolve_wrapped_type: unwrap Annotated and Optional
RECURSIVE _resolve_wrapped_type(_)
_resolve_wrapped_type(field_type) ==
  IF Has(field_type, "annotated") THEN _resolve_wrapped_type(field_type.annotated)
  ELSE IF Has(field_type, "union") /\ NoneType \in Range(field_type.union)
  THEN LET non_none_args == SelectSeq(field_type.union, LAMBDA arg : arg # NoneType)
       IN  IF Len(non_none_args) > 1
           THEN _resolve_wrapped_type([union |-> non_none_args])
           ELSE _resolve_wrapped_type(non_none_args[1])
  ELSE field_type

\* DataclassConverter._get_annotations of one annotation type
_get_annotations(field_type, annotation_type) ==
  IF Has(field_type, "annotated")
  THEN SelectSeq(field_type.annos, LAMBDA arg : Has(arg, annotation_type))
  ELSE <<>>

\* isinstance(x, type): a class, not a typing construct or a JTD dict
IsClass(x) == Has(x, "py") \/ Has(x, "enum_cls") \/ Has(x, "dataclass")

\* x.__name__ of a class
ClassName(x) ==
  IF Has(x, "enum_cls") THEN x.enum_cls
  ELSE IF Has(x, "dataclass") THEN x.dataclass
  ELSE [i \in 1..1 |-> x.py]

\* ConverterBase._get_field_type_name
_get_field_type_name(field_type, field_name) ==
  IF IsClass(field_type) THEN ClassName(field_type) ELSE field_name

\* get_concrete_type: JTD entry.get("type"); dataclass: the unwrapped type
\* when it is mapped or a descriptor
get_concrete_type(ad, entry) ==
  IF ad = JTD
  THEN IF Has(entry, "type") THEN Some(entry.type) ELSE None
  ELSE LET entry_type == _resolve_wrapped_type(entry)
       IN  IF InTypeMapping(ad, entry_type) \/ IsDescriptor(entry_type)
           THEN Some(entry_type)
           ELSE IF Has(entry_type, "DESCRIPTOR") THEN Some(entry_type.DESCRIPTOR)
           ELSE None

\* get_enum_vals: JTD numbers the names from 0; the dataclass adapter takes
\* the members' values and puts a placeholder first when none is 0
PLACEHOLDER_UNSET == <<"PLACEHOLDER_UNSET">>

jtd_get_enum_vals(entry) ==
  IF Has(entry, "enum")
  THEN Some([i \in DOMAIN entry.enum |->
               EnumValueDescriptorProto(entry.enum[i], i - 1)])
  ELSE None

\* An adapter that puts the placeholder first whatever the members' values
dataclass_get_enum_vals_always(entry) ==
  IF Has(entry, "enum_cls")
  THEN Some(<<EnumValueDescriptorProto(PLACEHOLDER_UNSET, 0)>>
            \o [i \in DOMAIN entry.members |->
                  EnumValueDescriptorProto(entry.members[i].name,
                                           entry.members[i].value)])
  ELSE None

dataclass_get_enum_vals(entry) ==
  IF Has(entry, "enum_cls")
  THEN LET values == [i \in DOMAIN entry.members |->
                        EnumValueDescriptorProto(entry.members[i].name,
                                                 entry.members[i].value)]
       IN  IF \A i \in DOMAIN values : values[i].number # 0
           THEN Some(<<EnumValueDescriptorProto(PLACEHOLDER_UNSET, 0)>> \o values)
           ELSE Some(values)
  ELSE None

get_enum_vals(ad, entry) ==
  IF ad = JTD THEN jtd_get_enum_vals(entry) ELSE dataclass_get_enum_vals(entry)

\* dict.get(key, {}) on a dict of ordered pairs
GetPairs(entry, key) == IF Has(entry, key) THEN entry[key] ELSE <<>>

Keys(pairs) == {pairs[i][1] : i \in DOMAIN pairs}

Lookup(pairs, key) == (CHOOSE i \in DOMAIN pairs : pairs[i][1] = key)

\* {**properties, **optional_properties}.items(): the keys of the first in
\* their order, with the second's value where it has the key too, then the
\* second's other keys
MergeDicts(properties, optional_properties) ==
  [i \in DOMAIN properties |->
     IF properties[i][1] \in Keys(optional_properties)
     THEN optional_properties[Lookup(optional_properties, properties[i][1])]
     ELSE properties[i]]
  \o SelectSeq(optional_properties, LAMBDA kv : kv[1] \notin Keys(properties))

\* get_message_fields: the ordered (name, field definition) pairs, or None
get_message_fields(ad, entry) ==
  IF ad = JTD
  THEN LET all_properties == MergeDicts(GetPairs(entry, "properties"),
                                        GetPairs(entry, "optionalProperties"))
       IN  IF all_properties # <<>> THEN Some(all_properties) ELSE None
  ELSE IF Has(entry, "dataclass")
       THEN Some([i \in DOMAIN entry.fields |-> <<entry.fields[i].name, entry.fields[i]>>])
       ELSE None

\* has_additional_fields: JTD entry.get("additionalProperties", False); a
\* dataclass has none
has_additional_fields(ad, entry) ==
  IF ad = JTD
  THEN Has(entry, "additionalProperties") /\ entry.additionalProperties
  ELSE FALSE

\* get_optional_field_names: JTD the optionalProperties keys; dataclass the
\* fields with a default
get_optional_field_names(ad, entry) ==
  IF ad = JTD
  THEN Keys(GetPairs(entry, "optionalProperties"))
  ELSE {entry.fields[i].name : i \in {j \in DOMAIN entry.fields : entry.fields[j].has_default}}

\* get_field_number raises ValueError on several FieldNumber annotations
get_field_number_raises(ad, field_def) ==
  /\ ad = DATACLASS
  /\ LET field_type == IF Has(field_def, "has_default") THEN field_def.type ELSE field_def
     IN  Len(_get_annotations(field_type, "FieldNumber")) > 1

\* A numbering that counts the fields from 0
get_field_number_from_zero(ad, num_fields, field_def) ==
  IF ad = JTD
  THEN IF Has(field_def, "metadata") /\ Has(field_def.metadata, "field_number")
       THEN field_def.metadata.field_number
       ELSE num_fields
  ELSE LET field_type == IF Has(field_def, "has_default") THEN field_def.type ELSE field_def
           annos      == _get_annotations(field_type, "FieldNumber")
       IN  IF annos # <<>> THEN annos[1].FieldNumber ELSE num_fields

\* get_field_number: the explicit number (JTD metadata.field_number, a
\* FieldNumber annotation), else the next number in sequence
get_field_number(ad, num_fields, field_def) ==
  IF ad = JTD
  THEN IF Has(field_def, "metadata") /\ Has(field_def.metadata, "field_number")
       THEN field_def.metadata.field_number
       ELSE num_fields + 1
  ELSE LET field_type == IF Has(field_def, "has_default") THEN field_def.type ELSE field_def
           annos      == _get_annotations(field_type, "FieldNumber")
       IN  IF annos # <<>> THEN annos[1].FieldNumber ELSE num_fields + 1

\* f"{field_def.name}_{res_type.__name__}".lower(), the oneof member's name
\* when no OneofField annotation gives one
DefaultOneofFieldName(field_def, arg) ==
  lower(field_def.name \o <<"_">> \o ClassName(_resolve_wrapped_type(arg)))

\* get_oneof_fields: JTD the mapping of a discriminator; dataclass the
\* arguments of a Union, named by annotation or by default. An empty or
\* missing result means the field is no oneof.
get_oneof_fields(ad, field_def) ==
  IF ad = JTD
  THEN IF Has(field_def, "discriminator") THEN field_def.mapping ELSE <<>>
  ELSE LET field_type == _resolve_wrapped_type(field_def.type)
       IN  IF Has(field_type, "union")
           THEN [i \in DOMAIN field_type.union |->
                   LET arg   == field_type.union[i]
                       annos == _get_annotations(arg, "OneofField")
                   IN  <<IF annos # <<>> THEN annos[1].OneofField
                         ELSE DefaultOneofFieldName(field_def, arg),
                         arg>>]
           ELSE <<>>

get_oneof_name(ad, field_def) ==
  IF ad = JTD THEN field_def.discriminator ELSE field_def.name

\* get_field_type: the type under the repetition wrapper
get_field_type(ad, field_def) ==
  IF ad = JTD
  THEN IF Has(field_def, "elements") THEN field_def.elements ELSE field_def
  ELSE LET field_type == _resolve_wrapped_type(field_def.type)
       IN  IF Has(field_type, "list") THEN field_type.list ELSE field_type

is_repeated_field(ad, field_def) ==
  IF ad = JTD
  THEN Has(field_def, "elements")
  ELSE Has(_resolve_wrapped_type(field_def.type), "list")


----------------------------------------------------------------------------
(* converter_base.py: the recursive walk. Every operator takes the adapter   *)
(* and the walk context and returns [err, val, ctx].                         *)

\* ConverterBase.get_descriptor: the entry itself when it is a descriptor,
\* or its DESCRIPTOR attribute
get_descriptor(entry) ==
  IF IsDescriptor(entry) THEN Some(entry)
  ELSE IF Has(entry, "DESCRIPTOR") THEN Some(entry.DESCRIPTOR)
  ELSE None

\* ConverterBase._convert_concrete_type
_convert_concrete_type(ad, concrete_type, ctx) ==
  LET Typed(in_mapping, entry_type) ==
        LET Referenced(descriptor_ref) ==
              IF ~descriptor_ref.none
              THEN _add_descriptor_imports(descriptor_ref.v, ctx)
              ELSE IF ~in_mapping
                   THEN Raise("ValueError", ctx)
                   ELSE Ok(IntVal(entry_type.int), ctx)
        IN  Referenced(get_descriptor(entry_type))
      Mapped(in_mapping) ==
        Typed(in_mapping, IF in_mapping
                          THEN type_mapping(ad)[MappingKey(concrete_type)]
                          ELSE concrete_type)
  IN  Mapped(InTypeMapping(ad, concrete_type))

\* f"{to_upper_camel(name)}Entry"
nested_cls_name(name) == to_upper_camel(name) \o EntrySuffix

\* ConverterBase._convert_map: the map entry message of a map<key, value>.
\* Neither field is given a label; a reference to a descriptor of the pool
\* is made by the descriptor's simple name.
_convert_map(name, key_type, val_type) ==
  LET key_field == FieldDescriptorProto(<<"k", "e", "y">>, 1, LABEL_OPTIONAL,
                                        key_type.code, NoTypeName, NoOneof)
      val_field(type, type_name) ==
        FieldDescriptorProto(<<"v", "a", "l", "u", "e">>, 2, LABEL_OPTIONAL,
                             type, type_name, NoOneof)
      nested(val, nested_type, enum_type) ==
        DescriptorProto(nested_cls_name(name), <<key_field, val>>,
                        nested_type, enum_type, <<>>, TRUE)
  IN  CASE val_type.k = "int" ->
             nested(val_field(val_type.code, NoTypeName), <<>>, <<>>)
        [] val_type.k = "desc" ->
             nested(val_field(IF val_type.d.is_enum THEN TYPE_ENUM ELSE TYPE_MESSAGE,
                              TypeName(FALSE, <<val_type.d.name>>)), <<>>, <<>>)
        [] val_type.k = "enum_proto" ->
             nested(val_field(TYPE_ENUM, TypeName(FALSE, <<val_type.p.name>>)),
                    <<>>, <<val_type.p>>)
        [] val_type.k = "msg_proto" ->
             nested(val_field(TYPE_MESSAGE, TypeName(FALSE, <<val_type.p.name>>)),
                    <<val_type.p>>, <<>>)

\* An enum conversion that takes the numbers to be in sequence unless the
\* last one falls short of the count
_convert_enum_by_last(name, entry, enum_entries) ==
  LET enum_name   == _get_field_type_name(entry, to_upper_camel(name))
      has_aliases == /\ enum_entries # <<>>
                     /\ enum_entries[Len(enum_entries)].number < Len(enum_entries) - 1
  IN  EnumDescriptorProto(enum_name, enum_entries, has_aliases)

\* ConverterBase._convert_enum
_convert_enum(name, entry, enum_entries) ==
  LET enum_name   == _get_field_type_name(entry, to_upper_camel(name))
      has_aliases == Cardinality({enum_entries[i].number : i \in DOMAIN enum_entries})
                       # Len(enum_entries)
  IN  EnumDescriptorProto(enum_name, enum_entries, has_aliases)

\* "_".join([field_name, plain_name])
JoinUnderscore(field_name, plain_name) == field_name \o <<"_">> \o plain_name

\* field.MergeFrom(FieldDescriptorProto(type_name=nested_name)) for the
\* fields of the map entry whose type_name is the plain name
RetargetFields(fields, plain_name, nested_name) ==
  [i \in DOMAIN fields |->
     IF fields[i].type_name = TypeName(FALSE, <<plain_name>>)
     THEN [fields[i] EXCEPT !.type_name = TypeName(FALSE, <<nested_name>>)]
     ELSE fields[i]]

\* while nested.nested_type: pop the last nested message of the map entry,
\* rename it after the field, retarget the entry's fields and move it up.
\* The result is [entry, moved]: the entry left behind and the messages
\* moved, in the order they are appended to the parent.
RECURSIVE HoistNestedTypes(_, _, _)
HoistNestedTypes(nested, field_name, moved) ==
  IF nested.nested_type = <<>> THEN [entry |-> nested, moved |-> moved]
  ELSE LET n           == Len(nested.nested_type)
           nested_type == nested.nested_type[n]
           plain_name  == nested_type.name
           nested_name == to_upper_camel(JoinUnderscore(field_name, plain_name))
       IN  HoistNestedTypes(
             [nested EXCEPT !.nested_type = SubSeq(nested.nested_type, 1, n - 1),
                            !.field = RetargetFields(nested.field, plain_name, nested_name)],
             field_name,
             Append(moved, [nested_type EXCEPT !.name = nested_name]))

\* while nested.enum_type: the same for the map entry's nested enums
RECURSIVE HoistNestedEnums(_, _, _)
HoistNestedEnums(nested, field_name, moved) ==
  IF nested.enum_type = <<>> THEN [entry |-> nested, moved |-> moved]
  ELSE LET n           == Len(nested.enum_type)
           nested_enum == nested.enum_type[n]
           plain_name  == nested_enum.name
           nested_name == to_upper_camel(JoinUnderscore(field_name, plain_name))
       IN  HoistNestedEnums(
             [nested EXCEPT !.enum_type = SubSeq(nested.enum_type, 1, n - 1),
                            !.field = RetargetFields(nested.field, plain_name, nested_name)],
             field_name,
             Append(moved, [nested_enum EXCEPT !.name = nested_name]))


\* What get_oneof_fields raises, "" when nothing: a JTD discriminator
\* without a mapping fails the assertion, several OneofField annotations on
\* one member of a Union are a ValueError
get_oneof_fields_raises(ad, field_def) ==
  IF ad = JTD
  THEN IF Has(field_def, "discriminator") /\ ~Has(field_def, "mapping")
       THEN "AssertionError" ELSE ""
  ELSE LET field_type == _resolve_wrapped_type(field_def.type)
       IN  IF /\ Has(field_type, "union")
              /\ \E i \in DOMAIN field_type.union :
                   Len(_get_annotations(field_type.union[i], "OneofField")) > 1
           THEN "ValueError" ELSE ""

\* The lists _convert_message fills while it walks the fields
MessageParts(field_descriptors, nested_enums, nested_messages, nested_oneofs) ==
  [field_descriptors |-> field_descriptors, nested_enums |-> nested_enums,
   nested_messages |-> nested_messages, nested_oneofs |-> nested_oneofs]

\* The body of "for nested, extra_kwargs in nested_results": one field
\* descriptor from a converted type, the nested enum or message kept, and a
\* map entry's own nested types moved up under names made of field_name
AddNestedResult(parts, field_name, nested_field_kwargs, nested) ==
  CASE nested.k = "int" ->
         [parts EXCEPT !.field_descriptors =
            Append(@, [nested_field_kwargs EXCEPT !.type = nested.code])]
    [] nested.k = "desc" ->
         [parts EXCEPT !.field_descriptors =
            Append(@, [nested_field_kwargs EXCEPT
                         !.type = IF nested.d.is_enum THEN TYPE_ENUM ELSE TYPE_MESSAGE,
                         !.type_name = TypeName(FALSE, nested.d.full_name)])]
    [] nested.k = "enum_proto" ->
         [parts EXCEPT
            !.field_descriptors =
               Append(@, [nested_field_kwargs EXCEPT
                            !.type = TYPE_ENUM,
                            !.type_name = TypeName(FALSE, <<nested.p.name>>)]),
            !.nested_enums = Append(@, nested.p)]
    [] nested.k = "msg_proto" ->
         IF nested.p.map_entry
         THEN LET Hoisted(types) ==
                    LET Moved(enums) ==
                          [parts EXCEPT
                             !.field_descriptors =
                                Append(@, [nested_field_kwargs EXCEPT
                                             !.type = TYPE_MESSAGE,
                                             !.type_name = TypeName(FALSE, <<nested.p.name>>),
                                             !.label = LABEL_REPEATED]),
                             !.nested_messages = Append(@, enums.entry) \o types.moved,
                             !.nested_enums = @ \o enums.moved]
                    IN  Moved(HoistNestedEnums(types.entry, field_name, <<>>))
              IN  Hoisted(HoistNestedTypes(nested.p, field_name, <<>>))
         ELSE [parts EXCEPT
                 !.field_descriptors =
                    Append(@, [nested_field_kwargs EXCEPT
                                 !.type = TYPE_MESSAGE,
                                 !.type_name = TypeName(FALSE, <<nested.p.name>>)]),
                 !.nested_messages = Append(@, nested.p)]

RECURSIVE AddNestedResults(_, _, _, _)
AddNestedResults(parts, field_name, field_kwargs, nested_results) ==
  IF nested_results = <<>> THEN parts
  ELSE LET r == Head(nested_results)
       IN  AddNestedResults(
             AddNestedResult(parts, field_name,
                             IF r.extra.none THEN field_kwargs
                             ELSE [field_kwargs EXCEPT
                                     !.oneof_index = r.extra.v.oneof_index,
                                     !.number = r.extra.v.number,
                                     !.name = r.extra.v.name],
                             r.nested),
             field_name, field_kwargs, Tail(nested_results))

\* An optional-oneof loop that numbers its oneofs from 0, whatever oneofs
\* the message declares already
RECURSIVE OptionalOneofsFromZero(_, _, _, _, _)
OptionalOneofsFromZero(fields, i, optional_names, num_nested_oneofs, optional_oneofs) ==
  IF i > Len(fields) THEN [field |-> fields, optional_oneofs |-> optional_oneofs]
  ELSE IF fields[i].name \in optional_names /\ fields[i].label = LABEL_OPTIONAL
  THEN OptionalOneofsFromZero(
         [fields EXCEPT ![i].oneof_index = Len(optional_oneofs)],
         i + 1, optional_names, num_nested_oneofs,
         Append(optional_oneofs, <<"_">> \o fields[i].name))
  ELSE OptionalOneofsFromZero(fields, i + 1, optional_names, num_nested_oneofs,
                              optional_oneofs)

\* The "optional properties as oneofs" loop: every field named optional
\* whose label is LABEL_OPTIONAL gets a oneof "_<name>" of its own
RECURSIVE OptionalOneofs(_, _, _, _, _)
OptionalOneofs(fields, i, optional_names, num_nested_oneofs, optional_oneofs) ==
  IF i > Len(fields) THEN [field |-> fields, optional_oneofs |-> optional_oneofs]
  ELSE IF fields[i].name \in optional_names /\ fields[i].label = LABEL_OPTIONAL
  THEN OptionalOneofs(
         [fields EXCEPT ![i].oneof_index = num_nested_oneofs + Len(optional_oneofs)],
         i + 1, optional_names, num_nested_oneofs,
         Append(optional_oneofs, <<"_">> \o fields[i].name))
  ELSE OptionalOneofs(fields, i + 1, optional_names, num_nested_oneofs, optional_oneofs)

AdditionalProperties == <<"additionalProperties">>

\* The end of _convert_message, once the fields are walked: the Struct field
\* for additional properties, the optional oneofs, the DescriptorProto
FinishMessage(ad, message_name, entry, parts, ctx) ==
  LET additional == has_additional_fields(ad, entry)
      clash      == \E i \in DOMAIN parts.field_descriptors :
                      parts.field_descriptors[i].name = AdditionalProperties
      field_descriptors ==
        IF additional
        THEN Append(parts.field_descriptors,
               FieldDescriptorProto(AdditionalProperties,
                                    Len(parts.field_descriptors) + 1,
                                    LABEL_OPTIONAL, TYPE_MESSAGE,
                                    TypeName(FALSE, Struct.full_name), NoOneof))
        ELSE parts.field_descriptors
      ctx2       == IF additional
                    THEN [ctx EXCEPT !.imports = @ \cup {Struct.file}]
                    ELSE ctx
      Message(opt) ==
        DescriptorProto(message_name, opt.field,
                        parts.nested_messages, parts.nested_enums,
                        parts.nested_oneofs \o opt.optional_oneofs, FALSE)
  IN  IF additional /\ clash THEN Raise("ValueError", ctx)
      ELSE Ok(MsgProtoVal(Message(OptionalOneofs(field_descriptors, 1,
                                                 get_optional_field_names(ad, entry),
                                                 Len(parts.nested_oneofs), <<>>))),
              ctx2)


RECURSIVE _convert(_, _, _, _)
RECURSIVE get_map_key_val_types(_, _, _)
RECURSIVE ConvertOneofFields(_, _, _, _, _, _, _)
RECURSIVE ConvertFields(_, _, _, _, _)

\* get_map_key_val_types: None, or the key and value types of a map. JTD
\* "values" maps have string keys; Dict[K, V] converts both arguments.
get_map_key_val_types(ad, entry, ctx) ==
  IF ad = JTD
  THEN IF Has(entry, "values")
       THEN LET string_type == JTD_TO_PROTO_TYPES["string"]
                KeyVal(val_type) ==
                  IF val_type.err # "" THEN val_type
                  ELSE Ok(Some(<<IntVal(string_type.int), val_type.val>>), val_type.ctx)
            IN  KeyVal(_convert(ad, entry.values, <<"v", "a", "l", "u", "e">>, ctx))
       ELSE Ok(None, ctx)
  ELSE IF Has(entry, "dict")
       THEN LET KeyVal(key_type, val_type) ==
                  IF val_type.err # "" THEN val_type
                  ELSE Ok(Some(<<key_type.val, val_type.val>>), val_type.ctx)
                Key(key_type) ==
                  IF key_type.err # "" THEN key_type
                  ELSE KeyVal(key_type, _convert(ad, entry.dict[2],
                                                 <<"v", "a", "l", "u", "e">>,
                                                 key_type.ctx))
            IN  Key(_convert(ad, entry.dict[1], <<"k", "e", "y">>, ctx))
       ELSE Ok(None, ctx)

\* The list comprehension over enumerate(oneof_fields): every member is
\* converted and given the oneof's index, its number and its lower-cased name
ConvertOneofFields(ad, oneof_fields, oneof_field_idx, num_fields, oneof_index, ctx, out) ==
  IF oneof_field_idx >= Len(oneof_fields) THEN Ok(out, ctx)
  ELSE LET oneof_field_name == oneof_fields[oneof_field_idx + 1][1]
           oneof_field_def  == oneof_fields[oneof_field_idx + 1][2]
           Converted(nested) ==
             IF nested.err # "" THEN nested
             ELSE IF get_field_number_raises(ad, oneof_field_def)
             THEN Raise("ValueError", nested.ctx)
             ELSE ConvertOneofFields(ad, oneof_fields, oneof_field_idx + 1, num_fields,
                    oneof_index, nested.ctx,
                    Append(out,
                      [nested |-> nested.val,
                       extra  |-> Some([oneof_index |-> oneof_index,
                                        number |-> get_field_number(ad,
                                                     num_fields + oneof_field_idx,
                                                     oneof_field_def),
                                        name |-> lower(oneof_field_name)])]))
       IN  Converted(_convert(ad, oneof_field_def,
                           _get_field_type_name(oneof_field_def, oneof_field_name), ctx))

\* "for field_name, field_def in message_fields", from the i-th field on
ConvertFields(ad, message_fields, i, parts, ctx) ==
  IF i > Len(message_fields) THEN Ok(parts, ctx)
  ELSE LET field_name   == message_fields[i][1]
           field_def    == message_fields[i][2]
           num_fields   == Len(parts.field_descriptors)
           field_kwargs ==
             FieldDescriptorProto(field_name,
               get_field_number(ad, num_fields, field_def),
               IF is_repeated_field(ad, field_def) THEN LABEL_REPEATED ELSE LABEL_OPTIONAL,
               TYPE_MESSAGE, NoTypeName, NoOneof)
           \* the rest of the loop body, once nested_results is there
           Place(oneof_parts, nested_results) ==
             IF nested_results.err # "" THEN nested_results
             ELSE ConvertFields(ad, message_fields, i + 1,
                    AddNestedResults(oneof_parts, field_name, field_kwargs,
                                     nested_results.val),
                    nested_results.ctx)
           Single(nested_result) ==
             IF nested_result.err # "" THEN nested_result
             ELSE Ok(<<[nested |-> nested_result.val, extra |-> None]>>,
                     nested_result.ctx)
           Fields(raises, oneof_fields, field_type) ==
             IF get_field_number_raises(ad, field_def) THEN Raise("ValueError", ctx)
             ELSE IF raises # "" THEN Raise(raises, ctx)
             ELSE IF oneof_fields # <<>>
             THEN Place([parts EXCEPT !.nested_oneofs =
                           Append(@, get_oneof_name(ad, field_def))],
                        ConvertOneofFields(ad, oneof_fields, 0, num_fields,
                                           Len(parts.nested_oneofs), ctx, <<>>))
             ELSE Place(parts,
                        Single(_convert(ad, field_type,
                                        _get_field_type_name(field_type, field_name),
                                        ctx)))
       IN  Fields(get_oneof_fields_raises(ad, field_def),
                  get_oneof_fields(ad, field_def),
                  get_field_type(ad, field_def))

\* ConverterBase._convert_message
_convert_message(ad, name, entry, message_fields, ctx) ==
  LET message_name == to_upper_camel(name)
      Walked(walked) ==
        IF walked.err # "" THEN walked
        ELSE FinishMessage(ad, message_name, entry, walked.val, walked.ctx)
  IN  Walked(ConvertFields(ad, message_fields, 1,
                           MessageParts(<<>>, <<>>, <<>>, <<>>), ctx))

\* ConverterBase._convert: concrete type, map, enum, message, in this order
_convert(ad, entry, name, ctx) ==
  LET Message(message_fields, ctx1) ==
        IF ~message_fields.none
        THEN _convert_message(ad, name, entry, message_fields.v, ctx1)
        ELSE Raise("ValueError", ctx1)
      Enum(enum_entries, ctx1) ==
        IF ~enum_entries.none
        THEN Ok(EnumProtoVal(_convert_enum(name, entry, enum_entries.v)), ctx1)
        ELSE Message(get_message_fields(ad, entry), ctx1)
      Map(map_info) ==
        IF map_info.err # "" THEN map_info
        ELSE IF ~map_info.val.none
        THEN IF map_info.val.v[1].k # "int"
             THEN Raise("TypeError", map_info.ctx)
             ELSE Ok(MsgProtoVal(_convert_map(name, map_info.val.v[1],
                                              map_info.val.v[2])),
                     map_info.ctx)
        ELSE Enum(get_enum_vals(ad, entry), map_info.ctx)
      Concrete(concrete_type) ==
        IF ~concrete_type.none
        THEN _convert_concrete_type(ad, concrete_type.v, ctx)
        ELSE Map(get_map_key_val_types(ad, entry, ctx))
  IN  Concrete(get_concrete_type(ad, entry))


----------------------------------------------------------------------------
(* ConverterBase.__init__: the whole conversion call (validate=False).       *)

ProtoSuffix == <<".proto">>

\* f"{name.lower()}.proto"
FileName(name) == lower(name) \o ProtoSuffix

\* The file names of the model in str order, by which sorted() orders the
\* imports
FilesInOrder ==
  <<ExtFile, <<"f", "_", "o", ".proto">>, <<"f", "o", ".proto">>, StructFile,
    TimestampFile, <<"s", "v", ".proto">>>>

\* list(self.imports) in an order other than str order
unsorted(imports) ==
  LET in_order == SelectSeq(FilesInOrder, LAMBDA f : f \in imports)
  IN  [i \in DOMAIN in_order |-> in_order[Len(in_order) + 1 - i]]

\* sorted(list(self.imports))
sorted(imports) == SelectSeq(FilesInOrder, LAMBDA f : f \in imports)

\* fullname = name if not package else ".".join([package, name])
FullName(package, name) == IF package = <<>> THEN <<name>> ELSE package \o <<name>>

\* The outcome of a call: err is "" or the exception raised, stage the step
\* that ended the call, fd_proto the draft file when the walk built one,
\* merge what safe_add_fd_to_pool did, descriptor the descriptor returned
Outcome(err, stage, fd_proto, merge, descriptor, p, ops) ==
  [err |-> err, stage |-> stage, fd_proto |-> fd_proto, merge |-> merge,
   descriptor |-> descriptor, pool |-> p, ops |-> ops]

\* The tail of __init__ once the walk returned a message or enum proto
RegisterAndLookup(name, package, descriptor_proto, ctx) ==
  LET is_enum  == descriptor_proto.k = "enum_proto"
      fullname == FullName(package, name)
      Looked(fd_proto, added, ops, found) ==
        IF added.err # ""
        THEN Outcome(added.err, "merge", Some(fd_proto), added.why, None, added.pool, ops)
        ELSE IF found = {}
        THEN Outcome("KeyError", "lookup", Some(fd_proto), added.why, None, added.pool, ops)
        ELSE Outcome("", "done", Some(fd_proto), added.why,
                     Some(CHOOSE d \in found : TRUE), added.pool, ops)
      Added(fd_proto, added) ==
        Looked(fd_proto, added, ctx.ops \o added.ops,
               FindTypeByName(added.pool, TargetPoolId, fullname, is_enum))
      Built(fd_proto) == Added(fd_proto, safe_add_fd_to_pool(fd_proto, ctx.pool))
  IN  Built(FileDescriptorProto(FileName(name), package, sorted(ctx.imports),
                IF is_enum THEN <<>> ELSE <<descriptor_proto.p>>,
                IF is_enum THEN <<descriptor_proto.p>> ELSE <<>>))

\* is_valid_jtd(source_schema, valid_types): a type must be a descriptor or
\* one of valid_types, an enum needs values and distinct ones, properties
\* may not be empty nor hold a name both as a property and as an optional
\* property, a discriminator needs a mapping whose values are objects that
\* are not nullable and do not hold the discriminator as a property, and
\* the nodes below must be valid
RECURSIVE is_valid_jtd(_, _)
is_valid_jtd(schema, valid_types) ==
  LET ValidPairs(pairs) ==
        \A i \in DOMAIN pairs : is_valid_jtd(pairs[i][2], valid_types)
      AllKeys(entry) ==
        Keys(GetPairs(entry, "properties")) \cup Keys(GetPairs(entry, "optionalProperties"))
  IN  /\ Has(schema, "type") =>
           \/ IsDescriptor(schema.type)
           \/ Has(schema.type, "marker") /\ schema.type.marker \in valid_types
      /\ Has(schema, "enum") => schema.enum # <<>> /\ NoDuplicates(schema.enum)
      /\ Has(schema, "elements") => is_valid_jtd(schema.elements, valid_types)
      /\ Has(schema, "values") => is_valid_jtd(schema.values, valid_types)
      /\ Has(schema, "properties") \/ Has(schema, "optionalProperties") =>
           AllKeys(schema) # {}
      /\ Keys(GetPairs(schema, "properties"))
           \cap Keys(GetPairs(schema, "optionalProperties")) = {}
      /\ ValidPairs(GetPairs(schema, "properties"))
      /\ ValidPairs(GetPairs(schema, "optionalProperties"))
      /\ Has(schema, "discriminator") =>
           /\ Has(schema, "mapping")
           /\ \A i \in DOMAIN schema.mapping :
                /\ Has(schema.mapping[i][2], "properties")
                     \/ Has(schema.mapping[i][2], "optionalProperties")
                /\ ~Has(schema.mapping[i][2], "nullable")
                /\ schema.discriminator \notin AllKeys(schema.mapping[i][2])
      /\ ValidPairs(GetPairs(schema, "mapping"))

\* self.validate(source_schema): JTDConverter checks the schema against
\* the keys of its type mapping, DataclassConverter wants a dataclass or an
\* Enum class
validate(ad, source_schema) ==
  IF ad = JTD
  THEN is_valid_jtd(source_schema, DOMAIN type_mapping(ad))
  ELSE Has(source_schema, "dataclass") \/ Has(source_schema, "enum_cls")

\* ConverterBase.__init__ from "Perform the recursive conversion" on
ConvertAndRegister(ad, name, package, source_schema, descriptor_pool) ==
  LET Walked(walked) ==
        IF walked.err # ""
        THEN Outcome(walked.err, "walk", None, "", None, walked.ctx.pool, walked.ctx.ops)
        ELSE IF walked.val.k \notin {"msg_proto", "enum_proto"}
        THEN Outcome("ValueError", "top", None, "", None, walked.ctx.pool, walked.ctx.ops)
        ELSE RegisterAndLookup(name, package, walked.val, walked.ctx)
  IN  Walked(_convert(ad, source_schema, name, Ctx(descriptor_pool, {}, <<>>)))

\* A constructor that validates only once the conversion is through
ConverterBaseValidatesLast(ad, name, package, source_schema, do_validate, descriptor_pool) ==
  LET Checked(out) ==
        IF do_validate /\ ~validate(ad, source_schema)
        THEN Outcome("ValueError", "validate", None, "", None, out.pool, out.ops)
        ELSE out
  IN  Checked(ConvertAndRegister(ad, name, package, source_schema, descriptor_pool))

\* ConverterBase.__init__: with validate set, a schema the adapter rejects
\* is a ValueError before anything else is done
ConverterBase(ad, name, package, source_schema, do_validate, descriptor_pool) ==
  IF do_validate /\ ~validate(ad, source_schema)
  THEN Outcome("ValueError", "validate", None, "", None, descriptor_pool, <<>>)
  ELSE ConvertAndRegister(ad, name, package, source_schema, descriptor_pool)

\* A call's arguments; validate is False unless asked for
Call(ad, name, package, schema) ==
  [adapter |-> ad, name |-> name, package |-> package, schema |-> schema,
   validate |-> FALSE]

\* The call with validate=True (validate_jtd=True)
Validated(call) == [call EXCEPT !.validate = TRUE]

NoCall == [kind |-> "none"]

\* The origin of a file no conversion call registered as its own
NoOrigin(f) == [call |-> NoCall, file |-> f, descriptor |-> None]

\* jtd_to_proto / dataclass_to_proto against the target pool: the pool
\* becomes what the call left, the files the call added take it as origin
Convert(call) ==
  LET Returned(out) ==
        /\ pool' = out.pool
        /\ origin' = [f \in DOMAIN out.pool.files |->
                        IF f \in DOMAIN pool.files THEN origin[f]
                        ELSE IF f = FileName(call.name)
                        THEN [call |-> call, file |-> f, descriptor |-> out.descriptor]
                        ELSE NoOrigin(f)]
        /\ last' = [kind |-> "call", call |-> call, out |-> out, before |-> pool]
  IN  Returned(ConverterBase(call.adapter, call.name, call.package, call.schema,
                             call.validate, pool))


----------------------------------------------------------------------------
(* json_to_service.py: a service over messages registered in the pool. The   *)
(* service definition is [service |-> [rpcs |-> <<rpc, ...>>]], an rpc a     *)
(* record with name, input_type, output_type and, where given, the keys      *)
(* client_streaming and server_streaming.                                    *)

\* validate_jtd(json_service_def, SERVICE_JTD_SCHEMA, ...): a service with
\* rpcs, each with the three required properties and no other than the two
\* optional ones
validate_jtd(json_service_def) ==
  /\ DOMAIN json_service_def = {"service"}
  /\ DOMAIN json_service_def.service = {"rpcs"}
  /\ \A i \in DOMAIN json_service_def.service.rpcs :
       LET rpc_def == json_service_def.service.rpcs[i]
       IN  /\ {"name", "input_type", "output_type"} \subseteq DOMAIN rpc_def
           /\ DOMAIN rpc_def \subseteq {"name", "input_type", "output_type",
                                        "client_streaming", "server_streaming"}

\* A live service descriptor: the registration that made it and its methods
ServiceDescriptor(pool_id, file, gen, package, service) ==
  [pool |-> pool_id, file |-> file, full_name |-> package \o <<service.name>>,
   name |-> service.name, gen |-> gen, methods |-> service.method]

\* DescriptorPool.FindServiceByName: none is a KeyError
FindServiceByName(p, pool_id, fullname) ==
  UNION {{ServiceDescriptor(pool_id, n, p.files[n].gen, p.files[n].proto.package,
                            p.files[n].proto.service[i]) :
            i \in {j \in DOMAIN p.files[n].proto.service :
                     p.files[n].proto.package \o <<p.files[n].proto.service[j].name>>
                       = fullname}} :
         n \in DOMAIN p.files}

\* rpc_def.get(key, False)
GetFlag(rpc_def, key) == IF Has(rpc_def, key) THEN rpc_def[key] ELSE FALSE

\* A loop over the rpcs that leaves out the entries whose types it cannot find
RECURSIVE RpcLoopSkipping(_, _, _)
RpcLoopSkipping(rpcs_def, n, descriptor_pool) ==
  IF n = 0
  THEN [err |-> "", method |-> <<>>, imports |-> <<>>]
  ELSE LET Found(sofar, rpc_def, inputs, outputs) ==
             IF inputs = {} \/ outputs = {} THEN sofar
             ELSE [err     |-> "",
                   method  |-> Append(sofar.method,
                     MethodDescriptorProto(rpc_def.name,
                       TypeName(FALSE, (CHOOSE d \in inputs : TRUE).full_name),
                       TypeName(FALSE, (CHOOSE d \in outputs : TRUE).full_name),
                       GetFlag(rpc_def, "client_streaming"),
                       GetFlag(rpc_def, "server_streaming"))),
                   imports |-> sofar.imports
                                 \o <<(CHOOSE d \in inputs : TRUE).file,
                                      (CHOOSE d \in outputs : TRUE).file>>]
       IN  Found(RpcLoopSkipping(rpcs_def, n - 1, descriptor_pool), rpcs_def[n],
                 FindTypeByName(descriptor_pool, TargetPoolId, rpcs_def[n].input_type, FALSE),
                 FindTypeByName(descriptor_pool, TargetPoolId, rpcs_def[n].output_type, FALSE))

\* for rpc_def in rpcs_def, up to the n-th entry: the methods and imports
\* appended so far, or the KeyError of FindMessageTypeByName
RECURSIVE RpcLoop(_, _, _)
RpcLoop(rpcs_def, n, descriptor_pool) ==
  IF n = 0
  THEN [err |-> "", method |-> <<>>, imports |-> <<>>]
  ELSE LET Found(sofar, rpc_def, inputs, outputs) ==
             IF sofar.err # "" THEN sofar
             ELSE IF inputs = {} \/ outputs = {}
             THEN [sofar EXCEPT !.err = "KeyError"]
             ELSE [err     |-> "",
                   method  |-> Append(sofar.method,
                     MethodDescriptorProto(rpc_def.name,
                       TypeName(FALSE, (CHOOSE d \in inputs : TRUE).full_name),
                       TypeName(FALSE, (CHOOSE d \in outputs : TRUE).full_name),
                       GetFlag(rpc_def, "client_streaming"),
                       GetFlag(rpc_def, "server_streaming"))),
                   imports |-> sofar.imports
                                 \o <<(CHOOSE d \in inputs : TRUE).file,
                                      (CHOOSE d \in outputs : TRUE).file>>]
       IN  Found(RpcLoop(rpcs_def, n - 1, descriptor_pool), rpcs_def[n],
                 FindTypeByName(descriptor_pool, TargetPoolId, rpcs_def[n].input_type, FALSE),
                 FindTypeByName(descriptor_pool, TargetPoolId, rpcs_def[n].output_type, FALSE))

\* A builder that lists the imports as the loop met them
_json_to_service_file_descriptor_proto_unsorted(name, package, json_service_def, descriptor_pool) ==
  LET Looped(loop) ==
        IF loop.err # "" THEN [err |-> loop.err, fd_proto |-> None]
        ELSE [err |-> "",
              fd_proto |-> Some(ServiceFileDescriptorProto(FileName(name), package,
                             loop.imports,
                             <<ServiceDescriptorProto(name, loop.method)>>))]
  IN  Looped(RpcLoop(json_service_def.service.rpcs,
                     Len(json_service_def.service.rpcs), descriptor_pool))

\* _json_to_service_file_descriptor_proto: the file <name.lower()>.proto
\* with the one service and the sorted set of the imports
_json_to_service_file_descriptor_proto(name, package, json_service_def, descriptor_pool) ==
  LET Looped(loop) ==
        IF loop.err # "" THEN [err |-> loop.err, fd_proto |-> None]
        ELSE [err |-> "",
              fd_proto |-> Some(ServiceFileDescriptorProto(FileName(name), package,
                             sorted(Range(loop.imports)),
                             <<ServiceDescriptorProto(name, loop.method)>>))]
  IN  Looped(RpcLoop(json_service_def.service.rpcs,
                     Len(json_service_def.service.rpcs), descriptor_pool))

\* _assert_method_lists_same: as many methods, of the same names in order
_assert_method_lists_same(service_descriptor, service_descriptor_proto) ==
  /\ Len(service_descriptor.methods) = Len(service_descriptor_proto.method)
  /\ \A i \in ZipDomain(service_descriptor.methods, service_descriptor_proto.method) :
       service_descriptor.methods[i].name = service_descriptor_proto.method[i].name

\* json_to_service: validate, build the file, merge it into the pool, look
\* the service up, and make the stub and the registration function, which
\* assert that the descriptor found has the methods of the file built
json_to_service(name, package, json_service_def, descriptor_pool) ==
  LET Looked(service_fd_proto, added, found) ==
        IF added.err # ""
        THEN Outcome(added.err, "merge", Some(service_fd_proto), added.why, None,
                     added.pool, added.ops)
        ELSE IF found = {}
        THEN Outcome("KeyError", "lookup", Some(service_fd_proto), added.why, None,
                     added.pool, added.ops)
        ELSE IF ~_assert_method_lists_same(CHOOSE d \in found : TRUE,
                                           service_fd_proto.service[1])
        THEN Outcome("AssertionError", "stub", Some(service_fd_proto), added.why,
                     None, added.pool, added.ops)
        ELSE Outcome("", "done", Some(service_fd_proto), added.why,
                     Some(CHOOSE d \in found : TRUE), added.pool, added.ops)
      Added(service_fd_proto, added) ==
        Looked(service_fd_proto, added,
               FindServiceByName(added.pool, TargetPoolId, FullName(package, name)))
      Built(built) ==
        IF built.err # ""
        THEN Outcome(built.err, "build", None, "", None, descriptor_pool, <<>>)
        ELSE Added(built.fd_proto.v, safe_add_fd_to_pool(built.fd_proto.v, descriptor_pool))
  IN  IF ~validate_jtd(json_service_def)
      THEN Outcome("ValueError", "validate", None, "", None, descriptor_pool, <<>>)
      ELSE Built(_json_to_service_file_descriptor_proto(name, package, json_service_def,
                                                        descriptor_pool))

SERVICE == "service"

\* The arguments of a json_to_service call
ServiceCall(name, package, json_service_def) ==
  [adapter |-> SERVICE, name |-> name, package |-> package,
   schema |-> json_service_def, validate |-> TRUE]

\* json_to_service against the target pool: the pool becomes what the call
\* left, the service file the call added takes it as origin
Serve(call) ==
  LET Returned(out) ==
        /\ pool' = out.pool
        /\ origin' = [f \in DOMAIN out.pool.files |->
                        IF f \in DOMAIN pool.files THEN origin[f]
                        ELSE [call |-> call, file |-> f, descriptor |-> out.descriptor]]
        /\ last' = [kind |-> "call", call |-> call, out |-> out, before |-> pool]
  IN  Returned(json_to_service(call.name, call.package, call.schema, pool))

----------------------------------------------------------------------------
(* Schemas. The constructors write the JTD dicts and the Python types the    *)
(* adapters read.                                                            *)

JType(m) == [type |-> Marker(m)]

JRef(descriptor) == [type |-> descriptor]

JElements(t) == [elements |-> t]

JValues(t) == [values |-> t]

JEnum(names) == [enum |-> names]

JObject(properties, optional_properties, additional) ==
  IF optional_properties = <<>>
  THEN IF additional
       THEN [properties |-> properties, additionalProperties |-> TRUE]
       ELSE [properties |-> properties]
  ELSE IF additional
       THEN [properties |-> properties, optionalProperties |-> optional_properties,
             additionalProperties |-> TRUE]
       ELSE [properties |-> properties, optionalProperties |-> optional_properties]

JOneof(discriminator, mapping) == [discriminator |-> discriminator, mapping |-> mapping]

JNumbered(t, n) == [type |-> t.type, metadata |-> [field_number |-> n]]

Py(n) == [py |-> n]

List(t) == [list |-> t]

Dict(k, v) == [dict |-> <<k, v>>]

Union(args) == [union |-> args]

Optional(t) == [union |-> <<t, NoneType>>]

Annotated(t, annos) == [annotated |-> t, annos |-> annos]

FieldNumber(n) == [FieldNumber |-> n]

OneofField(name) == [OneofField |-> name]

Member(name, value) == [name |-> name, value |-> value]

EnumClass(name, members) == [enum_cls |-> name, members |-> members]

Field(name, type, has_default) == [name |-> name, type |-> type, has_default |-> has_default]

Dataclass(name, fields) == [dataclass |-> name, fields |-> fields]

\* Names used by the schemas
n_foo == <<"f", "o", "o">>
n_bar == <<"b", "a", "r">>
n_Foo == <<"F", "o", "o">>
n_Bar == <<"B", "a", "r">>
n_kind == <<"k", "i", "n", "d">>
n_a == <<"a">>
n_b == <<"b">>
n_a_b == <<"a", "_", "b">>

\* Top-level names: one upper camel, one lower case, one with an underscore
\* (the first two share the file fo.proto)
Fo == <<"F", "o">>
fo == <<"f", "o">>
f_o == <<"f", "_", "o">>

NoPackage == <<>>
PackageP == << <<"p">> >>


----------------------------------------------------------------------------
(* Several conversions into one pool. *)

v_A == <<"A">>
v_B == <<"B">>

\* The JTD schemas converted into the shared pool
PoolJtdSchemas ==
  { JObject(<< <<n_foo, JType("string")>> >>, <<>>, FALSE),
    JObject(<< <<n_foo, JType("int32")>> >>, <<>>, FALSE),
    JObject(<< <<n_foo, JType("string")>>, <<n_bar, JType("boolean")>> >>, <<>>, FALSE),
    JObject(<< <<n_foo, JElements(JType("string"))>> >>, <<>>, FALSE),
    JObject(<< <<n_bar, JOneof(n_kind, << <<n_Foo, JType("int32")>> >>)>>,
               <<n_foo, JType("string")>> >>, <<>>, FALSE),
    JObject(<< <<n_foo, JEnum(<<v_A, v_B>>)>> >>, <<>>, FALSE),
    JObject(<< <<n_foo, JEnum(<<v_B, v_A>>)>> >>, <<>>, FALSE),
    JObject(<< <<n_foo, JObject(<< <<n_a, JType("string")>> >>, <<>>, FALSE)>> >>,
            <<>>, FALSE),
    JObject(<< <<n_foo, JObject(<< <<n_a, JType("string")>>, <<n_b, JType("string")>> >>,
                                <<>>, FALSE)>> >>, <<>>, FALSE),
    JObject(<< <<n_foo, JRef(ExtMessage)>>, <<n_bar, JType("bogus")>> >>, <<>>, FALSE),
    JEnum(<<v_A, v_B>>),
    JEnum(<<v_A>>) }

\* The Python types converted into the shared pool
PoolDataclassSchemas ==
  { Dataclass(n_Foo, << Field(n_foo, Py("str"), FALSE) >>) }

PoolNames == {Fo, fo}

PoolPackages == {NoPackage, PackageP}

PoolCalls ==
  {Call(JTD, n, p, s) : n \in PoolNames, p \in PoolPackages, s \in PoolJtdSchemas}
  \cup {Call(DATACLASS, n, p, s) :
          n \in PoolNames, p \in PoolPackages, s \in PoolDataclassSchemas}

Init ==
  /\ pool = temp_dpool
  /\ origin = [f \in DOMAIN temp_dpool.files |-> NoOrigin(f)]
  /\ last = NoCall
  /\ input = NoCall

\* jtd_to_proto(name, package, jtd_def, descriptor_pool=pool)
JtdToProto ==
  \E call \in PoolCalls :
    /\ call.adapter = JTD
    /\ Convert(call)
    /\ UNCHANGED input

\* dataclass_to_proto(package, dataclass_, name=name, descriptor_pool=pool)
DataclassToProto ==
  \E call \in PoolCalls :
    /\ call.adapter = DATACLASS
    /\ Convert(call)
    /\ UNCHANGED input

Next == JtdToProto \/ DataclassToProto

Spec == Init /\ [][Next]_vars


----------------------------------------------------------------------------
(* One conversion into a fresh pool, over a larger family of schemas. *)

\* The most fields of the generated plain messages, the most values of the
\* generated enums, the largest enum member value and the largest explicit
\* field number
MaxFields == 2
MaxEnumLen == 2
MaxEnumValue == 2
MaxFieldNumber == 3

\* The i-th generated field name: x, xx, ...
FieldNameOf(i) == [j \in 1..i |-> "x"]

\* The i-th generated enum value name: V, VV, ...
ValueNameOf(i) == [j \in 1..i |-> "V"]

\* n string fields under the generated names
Scalars(n) == [i \in 1..n |-> <<FieldNameOf(i), JType("string")>>]

JNames(k) == [i \in 1..k |-> ValueNameOf(i)]

JInner == JObject(<< <<n_a, JType("string")>> >>, <<>>, FALSE)

\* A schema node no adapter method recognises
JUnsupported == [nullable |-> TRUE]

\* A schema node that allows additional properties and declares none
JAdditionalOnly == [additionalProperties |-> TRUE]

WalkJtdBase ==
  { JType("string"), JType("int32"), JType("timestamp"), JType("bogus"),
    JRef(ExtMessage), JRef(ExtEnum), JInner, JUnsupported, JAdditionalOnly,
    JEnum(<<ValueNameOf(1), ValueNameOf(1)>>) }
  \cup {JEnum(JNames(k)) : k \in 0..MaxEnumLen}

WalkJtdOneofs ==
  { JOneof(n_kind, << <<n_Foo, JType("string")>>, <<n_Bar, JType("int32")>> >>),
    JOneof(n_kind, << <<n_Foo, JInner>>, <<n_a_b, JValues(JType("string"))>> >>) }

WalkJtdFieldDefs ==
  WalkJtdBase
  \cup {JElements(t) : t \in {JType("string"), JInner, JEnum(JNames(1))}}
  \cup {JValues(t) : t \in WalkJtdBase}
  \cup {JValues(JValues(JType("string"))), JValues(JValues(JInner))}
  \cup WalkJtdOneofs
  \cup {JNumbered(JType("string"), n) : n \in 1..MaxFieldNumber}

WalkJtdSchemas ==
  {JObject(IF opt THEN <<>> ELSE << <<n_foo, d>> >>,
           IF opt THEN << <<n_foo, d>> >> ELSE <<>>, add) :
     d \in WalkJtdFieldDefs, opt \in BOOLEAN, add \in BOOLEAN}
  \cup {JObject(Scalars(n) \o << <<n_foo, d>>, <<n_bar, JType("string")>> >>, <<>>, add) :
          n \in 0..MaxFields, add \in BOOLEAN,
          d \in WalkJtdOneofs \cup {JValues(JType("string")), JNumbered(JType("string"), 1)}}
  \cup {JObject(<< <<AdditionalProperties, JType("string")>> >>, <<>>, TRUE),
        JObject(<< <<n_foo, JRef(ExtMessage)>>, <<n_bar, JType("bogus")>> >>, <<>>, FALSE),
        JObject(<< <<n_bar, JOneof(n_kind, << <<n_Foo, JType("int32")>> >>)>> >>,
                << <<n_foo, JType("string")>> >>, FALSE),
        JObject(<< <<n_bar, JOneof(n_kind, << <<n_Bar, JType("int32")>> >>)>> >>,
                << <<n_foo, JType("string")>> >>, TRUE),
        JType("string"), JRef(ExtMessage), JValues(JType("string")), JUnsupported,
        JAdditionalOnly}
  \cup {JEnum(JNames(k)) : k \in 0..MaxEnumLen}

\* The Enum classes whose members take their values from 0..MaxEnumValue
WalkEnumClasses ==
  UNION {{EnumClass(n_Bar, [i \in 1..k |-> Member(ValueNameOf(i), vals[i])]) :
            vals \in [1..k -> 0..MaxEnumValue]} : k \in 0..MaxEnumLen}

\* class Bar(Enum): PLACEHOLDER_UNSET = 1
PlaceholderClass == EnumClass(n_Bar, <<Member(PLACEHOLDER_UNSET, 1)>>)

PyInner == Dataclass(n_Bar, << Field(n_a, Py("str"), FALSE) >>)

WalkPyTypes ==
  { Py("str"), Py("int"), Py("datetime"), Py("object"), ExtMessage, ExtEnum,
    PyInner, List(Py("str")), List(PyInner), Optional(Py("int")),
    Optional(List(Py("int"))),
    Dict(Py("str"), Py("int")), Dict(Py("int"), PyInner),
    Dict(Py("str"), Dict(Py("str"), Py("int"))),
    Dict(Py("datetime"), Py("int")),
    Union(<<Py("int"), Py("str")>>),
    Union(<<Annotated(Py("int"), <<OneofField(n_Foo)>>),
            Annotated(PyInner, <<OneofField(n_a_b)>>)>>),
    Union(<<Annotated(Py("int"), <<OneofField(n_a), OneofField(n_b)>>), Py("str")>>),
    Annotated(Py("int"), <<FieldNumber(1), FieldNumber(2)>>) }
  \cup {Annotated(Py("int"), <<FieldNumber(n)>>) : n \in 1..MaxFieldNumber}
  \cup WalkEnumClasses \cup {PlaceholderClass}

WalkDataclassSchemas ==
  {Dataclass(n_Foo, << Field(n_foo, t, dflt) >>) : t \in WalkPyTypes, dflt \in BOOLEAN}
  \cup {Dataclass(n_Foo, [i \in 1..n |-> Field(FieldNameOf(i), Py("int"), FALSE)]
                         \o << Field(n_foo, t, FALSE), Field(n_bar, Py("str"), TRUE) >>) :
          n \in 0..MaxFields,
          t \in {Union(<<Py("int"), Py("str")>>), Dict(Py("str"), Py("int"))}}
  \cup WalkEnumClasses
  \cup {Py("int"), Dict(Py("str"), Py("int"))}

WalkNames == {Fo, fo, f_o}

WalkPackages == {NoPackage, PackageP}

WalkPlainCalls ==
  {Call(JTD, n, p, s) : n \in WalkNames, p \in WalkPackages, s \in WalkJtdSchemas}
  \cup {Call(DATACLASS, n, p, s) :
          n \in WalkNames, p \in WalkPackages, s \in WalkDataclassSchemas}

\* Every call without and with validation
WalkCalls == WalkPlainCalls \cup {Validated(call) : call \in WalkPlainCalls}

InitWalk ==
  /\ pool = temp_dpool
  /\ origin = [f \in DOMAIN temp_dpool.files |-> NoOrigin(f)]
  /\ last = NoCall
  /\ input \in WalkCalls

\* The one jtd_to_proto call of the run
WalkJtd ==
  /\ last = NoCall
  /\ input.adapter = JTD
  /\ Convert(input)
  /\ UNCHANGED input

\* The one dataclass_to_proto call of the run
WalkDataclass ==
  /\ last = NoCall
  /\ input.adapter = DATACLASS
  /\ Convert(input)
  /\ UNCHANGED input

NextWalk == WalkJtd \/ WalkDataclass

SpecWalk == InitWalk /\ [][NextWalk]_vars


----------------------------------------------------------------------------
(* Properties of several conversions into one pool (Spec). *)

Called == last.kind = "call"

\* The file the last call's top-level name maps to
LastFile == FileName(last.call.name)

\* The last call met a file of its own name that an earlier call added
MetEarlierFile ==
  /\ Called
  /\ LastFile \in DOMAIN last.before.files
  /\ origin[LastFile].call # NoCall

\* The last call repeats, argument for argument, the call that added the
\* file of its name
RepeatsEarlierCall ==
  /\ MetEarlierFile
  /\ origin[LastFile].call = last.call

RECURSIVE MessagesOf(_)
MessagesOf(m) ==
  {m} \cup UNION {MessagesOf(m.nested_type[i]) : i \in DOMAIN m.nested_type}

FileMessages(fd) == UNION {MessagesOf(fd.message_type[i]) : i \in DOMAIN fd.message_type}

FieldNames(m) == {m.field[i].name : i \in DOMAIN m.field}

\* Two enums of one name list different (name, number) sequences
EnumsDiffer(enums1, enums2) ==
  \E i \in DOMAIN enums1, j \in DOMAIN enums2 :
    /\ enums1[i].name = enums2[j].name
    /\ enums1[i].value # enums2[j].value

\* Two messages differ in their field names, in the label or type of a
\* field of one name, in an enum of one name, or in a nested message of one
\* name
RECURSIVE MessagesDiffer(_, _)
MessagesDiffer(m1, m2) ==
  \/ FieldNames(m1) # FieldNames(m2)
  \/ \E i \in DOMAIN m1.field, j \in DOMAIN m2.field :
       /\ m1.field[i].name = m2.field[j].name
       /\ m1.field[i].label # m2.field[j].label \/ m1.field[i].type # m2.field[j].type
  \/ EnumsDiffer(m1.enum_type, m2.enum_type)
  \/ \E i \in DOMAIN m1.nested_type, j \in DOMAIN m2.nested_type :
       /\ m1.nested_type[i].name = m2.nested_type[j].name
       /\ MessagesDiffer(m1.nested_type[i], m2.nested_type[j])

\* The draft of the second schema differs from the registered file in one
\* of the ways a conflict is promised for
FilesDiffer(d1, d2) ==
  \/ (d1.message_type = <<>>) # (d2.message_type = <<>>)
  \/ EnumsDiffer(d1.enum_type, d2.enum_type)
  \/ \E i \in DOMAIN d1.message_type, j \in DOMAIN d2.message_type :
       /\ d1.message_type[i].name = d2.message_type[j].name
       /\ MessagesDiffer(d1.message_type[i], d2.message_type[j])

\* The last call converts another schema under the name and package of the
\* call that added the file and got a descriptor back, and its walk built a
\* draft
SameNameAndPackage ==
  /\ MetEarlierFile
  /\ ~origin[LastFile].descriptor.none
  /\ origin[LastFile].call.name = last.call.name
  /\ origin[LastFile].call.package = last.call.package
  /\ ~last.out.fd_proto.none

\* C2: once (N, P, S1) is converted, converting (N, P, S2) raises TypeError
\* whenever S2's draft differs from S1's in the field names of a message, in
\* the label or type of a same-named field, in the values of an enum, or in
\* being a message or an enum.
C2_ConflictDetected ==
  (/\ SameNameAndPackage
   /\ FilesDiffer(last.out.fd_proto.v, CopyToProto(last.before.files[LastFile])))
    => last.out.err = "TypeError"

\* C3: once (N, P1, S) is converted, converting (N, P2, S) with another
\* package succeeds too and returns a descriptor of its own package.
C3_SameNameOtherPackage ==
  (/\ MetEarlierFile
   /\ ~origin[LastFile].descriptor.none
   /\ origin[LastFile].call.name = last.call.name
   /\ origin[LastFile].call.adapter = last.call.adapter
   /\ origin[LastFile].call.schema = last.call.schema
   /\ origin[LastFile].call.package # last.call.package)
    => /\ last.out.err = ""
       /\ ~last.out.descriptor.none
       /\ last.out.descriptor.v.full_name = FullName(last.call.package, last.call.name)

\* C10: a conflict found by the merger raises TypeError after the one
\* lookup of the file, with no Add and no second attempt; the pool is what
\* it was, and the descriptors handed out for registered files are still
\* what every lookup of their names returns.
C10_ConflictLeavesPool ==
  /\ (Called /\ last.out.merge = "conflict") =>
       /\ last.out.err = "TypeError"
       /\ last.out.descriptor.none
       /\ pool = last.before
       /\ SelectSeq(last.out.ops, LAMBDA o : o.file = LastFile)
            = <<PoolOp("FindFileByName", LastFile)>>
  /\ \A f \in DOMAIN origin :
       ~origin[f].descriptor.none =>
         FindTypeByName(pool, TargetPoolId, origin[f].descriptor.v.full_name,
                        origin[f].descriptor.v.is_enum) = {origin[f].descriptor.v}

\* A call has run into a conflict with a file an earlier call got a
\* descriptor for
C10_Witness ==
  /\ MetEarlierFile
  /\ last.out.merge = "conflict"
  /\ ~origin[LastFile].descriptor.none
  /\ origin[LastFile].descriptor.v.gen = pool.files[LastFile].gen


----------------------------------------------------------------------------
(* Properties of one conversion (SpecWalk). *)

\* The walk of the last call built a draft file
Drafted == Called /\ ~last.out.fd_proto.none

Draft == last.out.fd_proto.v

\* The nodes directly under a schema node
Children(ad, node) ==
  IF ad = JTD
  THEN IF Has(node, "type") THEN {}
       ELSE Range([i \in DOMAIN GetPairs(node, "properties") |-> node.properties[i][2]])
            \cup Range([i \in DOMAIN GetPairs(node, "optionalProperties") |->
                          node.optionalProperties[i][2]])
            \cup Range([i \in DOMAIN GetPairs(node, "mapping") |-> node.mapping[i][2]])
            \cup (IF Has(node, "elements") THEN {node.elements} ELSE {})
            \cup (IF Has(node, "values") THEN {node.values} ELSE {})
  ELSE IF Has(node, "annotated") THEN {node.annotated}
       ELSE IF Has(node, "list") THEN {node.list}
       ELSE IF Has(node, "dict") THEN Range(node.dict)
       ELSE IF Has(node, "union") THEN Range(node.union)
       ELSE IF Has(node, "dataclass")
       THEN {node.fields[i].type : i \in DOMAIN node.fields}
       ELSE {}

\* All nodes of a schema
RECURSIVE Nodes(_, _)
Nodes(ad, node) == {node} \cup UNION {Nodes(ad, c) : c \in Children(ad, node)}

\* The node gives a field number explicitly
NumbersField(ad, node) ==
  IF ad = JTD
  THEN Has(node, "metadata") /\ Has(node.metadata, "field_number")
  ELSE _get_annotations(node, "FieldNumber") # <<>>

HasExplicitNumber(ad, schema) == \E n \in Nodes(ad, schema) : NumbersField(ad, n)

\* C4: a call that fails during the walk leaves the pool with the files it
\* had before the call.
C4_NoPartialRegistration ==
  (Called /\ last.out.stage \in {"walk", "top"})
    => DOMAIN pool.files = DOMAIN last.before.files

\* C5: when the merge of a conversion completes without error, the lookup
\* of the qualified top-level name returns the descriptor just registered.
C5_LookupAfterMerge ==
  (Called /\ last.out.merge \in {"added", "noop"})
    => /\ last.out.err = ""
       /\ ~last.out.descriptor.none
       /\ last.out.descriptor.v.file = LastFile
       /\ last.out.descriptor.v.full_name = FullName(last.call.package, last.call.name)

\* C6: in a conversion without explicit field numbers every message of the
\* draft, with the fields of expanded oneofs and the additionalProperties
\* field, numbers its N fields 1..N in the order they were produced.
C6_FieldNumbering ==
  (Drafted /\ ~HasExplicitNumber(last.call.adapter, last.call.schema))
    => \A m \in FileMessages(Draft) :
         \A i \in DOMAIN m.field : m.field[i].number = i

\* A message with an expanded oneof of two members between other fields and
\* the additionalProperties field at its end
C6_Witness ==
  /\ Drafted
  /\ ~HasExplicitNumber(last.call.adapter, last.call.schema)
  /\ \E m \in FileMessages(Draft) :
       /\ Len(m.field) >= 5
       /\ m.field[Len(m.field)].name = AdditionalProperties
       /\ \E i \in DOMAIN m.field :
            /\ i > 1
            /\ i + 1 < Len(m.field)
            /\ m.field[i].oneof_index = 0
            /\ m.field[i + 1].oneof_index = 0
            /\ m.field[i + 1].number = i + 1


\* All enums of a file, nested ones included
FileEnums(fd) ==
  Range(fd.enum_type)
  \cup UNION {Range(m.enum_type) : m \in FileMessages(fd)}

\* The enum nodes of a schema
EnumNodes(ad, schema) == {n \in Nodes(ad, schema) : ~get_enum_vals(ad, n).none}

\* The (name, number) entries an enum node supplies: the JTD names numbered
\* from 0 in their order, the members of an Enum class with their values
Supplied(ad, node) ==
  IF ad = JTD
  THEN [i \in DOMAIN node.enum |-> EnumValueDescriptorProto(node.enum[i], i - 1)]
  ELSE [i \in DOMAIN node.members |->
          EnumValueDescriptorProto(node.members[i].name, node.members[i].value)]

SuppliesZero(ad, node) ==
  \E i \in DOMAIN Supplied(ad, node) : Supplied(ad, node)[i].number = 0

Placeholder == EnumValueDescriptorProto(PLACEHOLDER_UNSET, 0)

RefsMapEntry(fd, f) ==
  /\ f.type = TYPE_MESSAGE
  /\ \E e \in FileMessages(fd) : e.map_entry /\ f.type_name = TypeName(FALSE, <<e.name>>)

MapEntryOf(fd, f) ==
  CHOOSE e \in FileMessages(fd) : e.map_entry /\ f.type_name = TypeName(FALSE, <<e.name>>)

\* C8: every field of a draft that references a map entry message is
\* repeated, and the entry is named after the field in upper camel case
\* with the suffix Entry, is flagged as a map entry and has exactly the
\* fields key, numbered 1, and value, numbered 2.
C8_MapShape ==
  Drafted =>
    \A m \in FileMessages(Draft) :
      \A i \in DOMAIN m.field :
        RefsMapEntry(Draft, m.field[i]) =>
          LET e == MapEntryOf(Draft, m.field[i])
          IN  /\ m.field[i].label = LABEL_REPEATED
              /\ e.name = to_upper_camel(m.field[i].name) \o EntrySuffix
              /\ e.map_entry
              /\ Len(e.field) = 2
              /\ e.field[1].name = <<"k", "e", "y">> /\ e.field[1].number = 1
              /\ e.field[2].name = <<"v", "a", "l", "u", "e">> /\ e.field[2].number = 2


\* The schema of the last call is one _convert handles as a message
TopIsMessage ==
  /\ Drafted
  /\ get_concrete_type(last.call.adapter, last.call.schema).none
  /\ ~Has(last.call.schema, "values") /\ ~Has(last.call.schema, "dict")
  /\ get_enum_vals(last.call.adapter, last.call.schema).none
  /\ ~get_message_fields(last.call.adapter, last.call.schema).none

TopMessage == Draft.message_type[1]

TopFields == get_message_fields(last.call.adapter, last.call.schema).v

\* The names of the fields the explicit oneofs of the top-level message
\* expand to
ExplicitMemberNames ==
  UNION {{lower(get_oneof_fields(last.call.adapter, TopFields[i][2])[j][1]) :
            j \in DOMAIN get_oneof_fields(last.call.adapter, TopFields[i][2])} :
         i \in DOMAIN TopFields}

\* A field named optional that is no member of an explicit oneof
OptionalField(i) ==
  /\ TopMessage.field[i].name
       \in get_optional_field_names(last.call.adapter, last.call.schema)
  /\ TopMessage.field[i].name \notin ExplicitMemberNames

\* The message declares the oneof _<name> and the field is its only member
Wrapped(m, i) ==
  /\ m.field[i].oneof_index # NoOneof
  /\ m.field[i].oneof_index + 1 \in DOMAIN m.oneof_decl
  /\ m.oneof_decl[m.field[i].oneof_index + 1] = <<"_">> \o m.field[i].name
  /\ \A j \in DOMAIN m.field :
       j # i => m.field[j].oneof_index # m.field[i].oneof_index

----------------------------------------------------------------------------
(* Conversions and services merged into one pool (SpecMerge): three names    *)
(* that fall on two files, messages that differ in the order or the numbers  *)
(* of their fields, and services over the registered messages.               *)

FO == <<"F", "O">>

\* The f_o.proto and fo.proto messages are both named FO; Fo and FO share
\* the file fo.proto
MergeNames == {Fo, FO, f_o}

MergeJtdSchemas ==
  { JObject(<< <<n_foo, JType("string")>>, <<n_bar, JType("boolean")>> >>, <<>>, FALSE),
    JObject(<< <<n_bar, JType("boolean")>>, <<n_foo, JType("string")>> >>, <<>>, FALSE),
    JObject(<< <<n_foo, JNumbered(JType("string"), 3)>>,
               <<n_bar, JType("boolean")>> >>, <<>>, FALSE),
    JObject(<< <<n_foo, JType("string")>> >>, <<>>, FALSE) }

MergeJtdCalls == {Call(JTD, n, PackageP, s) : n \in MergeNames, s \in MergeJtdSchemas}

\* jtd_to_proto(name, package, jtd_def, descriptor_pool=pool)
MergeJtd ==
  \E call \in MergeJtdCalls :
    /\ Convert(call)
    /\ UNCHANGED input

Sv == <<"S", "v">>

n_M == <<"M">>
n_N == <<"N">>

\* An rpc without streaming settings, with one and with both
Rpc(name, input_type, output_type) ==
  [name |-> name, input_type |-> input_type, output_type |-> output_type]

ClientStreaming(rpc_def, flag) ==
  [k \in DOMAIN rpc_def \cup {"client_streaming"} |->
     IF k = "client_streaming" THEN flag ELSE rpc_def[k]]

ServerStreaming(rpc_def, flag) ==
  [k \in DOMAIN rpc_def \cup {"server_streaming"} |->
     IF k = "server_streaming" THEN flag ELSE rpc_def[k]]

ServiceJson(rpcs) == [service |-> [rpcs |-> rpcs]]

p_Fo == PackageP \o <<Fo>>
p_FO == PackageP \o <<FO>>

\* A qualified name no call of the universe registers
p_Missing == PackageP \o <<Sv, Sv>>

MergeRpcLists ==
  LET M == Rpc(n_M, p_Fo, p_FO)
      N == Rpc(n_N, p_FO, p_FO)
  IN  { <<M>>, <<N>>, <<M, N>>, <<N, M>>,
        <<ClientStreaming(M, TRUE)>>,
        <<ServerStreaming(ClientStreaming(M, FALSE), TRUE)>>,
        <<ClientStreaming(M, TRUE), N>>,
        <<Rpc(n_M, p_FO, p_FO)>>, <<Rpc(n_M, p_Fo, p_Fo)>>,
        <<Rpc(n_M, p_Fo, p_Fo), M>>,
        <<Rpc(n_M, p_Missing, p_Fo), N>>, <<N, Rpc(n_M, p_Fo, p_Missing)>>,
        <<N, Rpc(n_M, p_Missing, p_Fo), N>>,
        <<[name |-> n_M, input_type |-> p_Fo]>> }

MergeServiceCalls == {ServiceCall(Sv, PackageP, ServiceJson(rpcs)) : rpcs \in MergeRpcLists}

\* json_to_service(name, package, json_service_def, descriptor_pool=pool)
JsonToService ==
  \E call \in MergeServiceCalls :
    /\ Serve(call)
    /\ UNCHANGED input

NextMerge == MergeJtd \/ JsonToService

SpecMerge == Init /\ [][NextMerge]_vars

----------------------------------------------------------------------------
(* Properties of the merges (SpecMerge). *)

\* A message without its field numbers and the order of its fields
RECURSIVE Unnumbered(_)
Unnumbered(m) ==
  [name |-> m.name,
   field |-> {[m.field[i] EXCEPT !.number = 0] : i \in DOMAIN m.field},
   nested_type |-> [i \in DOMAIN m.nested_type |-> Unnumbered(m.nested_type[i])],
   enum_type |-> m.enum_type, oneof_decl |-> m.oneof_decl, map_entry |-> m.map_entry]

UnnumberedFile(fd) ==
  [fd EXCEPT !.message_type = [i \in DOMAIN fd.message_type |->
                                 Unnumbered(fd.message_type[i])]]

\* The draft of the last call as the pool would hold it
LastDraftBuilt == BuiltFile(last.out.fd_proto.v, last.before)

\* The last call converts under the name and package of the call that
\* registered the file, and its draft differs from the registered file in
\* field numbers or field order and in nothing else
DiffersInNumberingOnly ==
  /\ SameNameAndPackage
  /\ LastDraftBuilt # CopyToProto(last.before.files[LastFile])
  /\ UnnumberedFile(LastDraftBuilt)
       = UnnumberedFile(CopyToProto(last.before.files[LastFile]))

DuplicateSymbol ==
  /\ Drafted
  /\ LastFile \notin DOMAIN last.before.files
  /\ FileSymbols(Draft) \cap PoolSymbols(last.before) # {}

\* C12: when no file of the candidate's name is registered but another file
\* defines one of its types, the merger looks the file up, attempts the Add
\* and raises TypeError (the branch that adds the hint naming the file); the
\* pool is left as it was, without the candidate file.
C12_DuplicateSymbol ==
  DuplicateSymbol =>
    /\ last.out.err = "TypeError"
    /\ last.out.merge = "add_failed"
    /\ SelectSeq(last.out.ops, LAMBDA o : o.file = LastFile)
         = <<PoolOp("FindFileByName", LastFile), PoolOp("Add", LastFile)>>
    /\ pool = last.before
    /\ LastFile \notin DOMAIN pool.files

\* The message FO of f_o.proto is registered and a call under the name FO,
\* whose file would be fo.proto, has failed
C12_Witness ==
  /\ DuplicateSymbol
  /\ last.call.name = FO
  /\ FileName(f_o) \in DOMAIN pool.files
  /\ last.out.err = "TypeError"


----------------------------------------------------------------------------
(* Validation before the conversion (SpecWalk)                              *)

\* The call asked for validation and the adapter's pre-check rejects the schema
RejectedByValidation ==
  /\ Called
  /\ last.call.validate
  /\ ~validate(last.call.adapter, last.call.schema)

----------------------------------------------------------------------------
(* Properties of the services (SpecMerge). *)

\* The last call was json_to_service with a service definition of the
\* service schema
ServiceCalled ==
  /\ Called
  /\ last.call.adapter = SERVICE
  /\ validate_jtd(last.call.schema)

LastRpcs == last.call.schema.service.rpcs

\* The files of a pool that define a message of the qualified name
OwningFiles(p, fullname) ==
  {f \in DOMAIN p.files :
     \E s \in FileSymbols(p.files[f].proto) : s.full = fullname /\ ~s.is_enum}

Resolves(p, rpc_def) ==
  /\ OwningFiles(p, rpc_def.input_type) # {}
  /\ OwningFiles(p, rpc_def.output_type) # {}

AllResolve == ServiceCalled /\ \A i \in DOMAIN LastRpcs : Resolves(last.before, LastRpcs[i])

\* The setting of a streaming key, False when the entry has none
Setting(rpc_def, key) == (key \in DOMAIN rpc_def) /\ rpc_def[key]

\* The position of a file name in the order of the file names
Position(f) == CHOOSE k \in DOMAIN FilesInOrder : FilesInOrder[k] = f

\* C14: when every input and output type of the rpc list resolves in the
\* pool, the file built has one service with one method per rpc entry, in
\* the order of the list and of the entry's name and types; each
\* streaming flag is the entry's own setting of it, false when not set; and
\* the dependencies are, in ascending order and each once, the files that
\* own the referenced messages
C14_ServiceBuilderOutput ==
  AllResolve =>
    /\ ~last.out.fd_proto.none
    /\ LET fd      == last.out.fd_proto.v
           methods == fd.service[1].method
       IN  /\ Len(fd.service) = 1
           /\ fd.service[1].name = last.call.name
           /\ Len(methods) = Len(LastRpcs)
           /\ \A i \in DOMAIN LastRpcs :
                /\ methods[i].name = LastRpcs[i].name
                /\ methods[i].input_type.path = LastRpcs[i].input_type
                /\ methods[i].output_type.path = LastRpcs[i].output_type
                /\ methods[i].client_streaming = Setting(LastRpcs[i], "client_streaming")
                /\ methods[i].server_streaming = Setting(LastRpcs[i], "server_streaming")
           /\ Range(fd.dependency)
                = UNION {OwningFiles(last.before, LastRpcs[i].input_type)
                         \cup OwningFiles(last.before, LastRpcs[i].output_type) :
                           i \in DOMAIN LastRpcs}
           /\ \A j, k \in DOMAIN fd.dependency :
                j < k => Position(fd.dependency[j]) < Position(fd.dependency[k])

\* Two methods, the first client-streaming only, over messages of two files
\* that the list meets in descending order
C14_Witness ==
  /\ AllResolve
  /\ ~last.out.fd_proto.none
  /\ Len(last.out.fd_proto.v.service[1].method) = 2
  /\ last.out.fd_proto.v.service[1].method[1].client_streaming
  /\ ~last.out.fd_proto.v.service[1].method[1].server_streaming
  /\ Len(last.out.fd_proto.v.dependency) = 2
  /\ OwningFiles(last.before, LastRpcs[1].input_type)
       = {last.out.fd_proto.v.dependency[2]}

\* The rpc entries whose input or output type the pool does not hold
Unresolved == {i \in DOMAIN LastRpcs : ~Resolves(last.before, LastRpcs[i])}

\* C15: when the input or output type of some rpc entry, at whatever
\* position, does not resolve in the pool, the call fails with the KeyError
\* of the lookup, builds no file, makes no pool operation and leaves the
\* pool as it was, without a service file it did not have
C15_UnresolvedServiceType ==
  ServiceCalled /\ Unresolved # {} =>
    /\ last.out.err = "KeyError"
    /\ last.out.stage = "build"
    /\ last.out.fd_proto.none
    /\ last.out.descriptor.none
    /\ last.out.ops = <<>>
    /\ pool = last.before
    /\ FindServiceByName(pool, TargetPoolId, FullName(last.call.package, last.call.name))
         = FindServiceByName(last.before, TargetPoolId,
                             FullName(last.call.package, last.call.name))

\* The one unresolved entry stands between two that resolve, and the pool
\* has no service file
C15_Witness ==
  /\ ServiceCalled
  /\ Unresolved = {2}
  /\ Len(LastRpcs) = 3
  /\ last.out.err = "KeyError"
  /\ LastFile \notin DOMAIN pool.files

\* The last call repeats the json_to_service call that registered the
\* service file and returned its service descriptor
RepeatsService ==
  /\ ServiceCalled
  /\ RepeatsEarlierCall
  /\ ~origin[LastFile].descriptor.none

\* C16: building the same service (name, package, rpc list) again in the
\* same pool succeeds and returns the service descriptor the first call
\* returned, without a conflict and without a change of the pool
C16_ServiceIdempotent ==
  RepeatsService =>
    /\ last.out.err = ""
    /\ last.out.merge = "noop"
    /\ last.out.descriptor = origin[LastFile].descriptor
    /\ pool = last.before

\* The repeated call's draft names its types without the leading dot, the
\* registered file with it
C16_Witness ==
  /\ RepeatsService
  /\ last.out.err = ""
  /\ last.out.descriptor = origin[LastFile].descriptor
  /\ ~last.out.fd_proto.v.service[1].method[1].input_type.dot
  /\ CopyToProto(last.before.files[LastFile]).service[1].method[1].input_type.dot
  /\ last.out.fd_proto.v.service[1].method[1].input_type.path
       = CopyToProto(last.before.files[LastFile]).service[1].method[1].input_type.path

\* The methods of the service registered under the last call's file
RegisteredMethods == CopyToProto(last.before.files[LastFile]).service[1].method

\* The last call builds, with types that resolve, a service of the name and
\* package of a registered one
MeetsRegisteredService ==
  /\ AllResolve
  /\ MetEarlierFile
  /\ origin[LastFile].call.adapter = SERVICE
  /\ origin[LastFile].call.name = last.call.name
  /\ origin[LastFile].call.package = last.call.package

\* The rpc list differs from the registered service: in the set of method
\* names, or in a same-named method's input type, output type or flags
ServiceDiffers ==
  \/ {LastRpcs[i].name : i \in DOMAIN LastRpcs}
       # {RegisteredMethods[j].name : j \in DOMAIN RegisteredMethods}
  \/ \E i \in DOMAIN LastRpcs, j \in DOMAIN RegisteredMethods :
       /\ LastRpcs[i].name = RegisteredMethods[j].name
       /\ \/ LastRpcs[i].input_type # RegisteredMethods[j].input_type.path
          \/ LastRpcs[i].output_type # RegisteredMethods[j].output_type.path
          \/ Setting(LastRpcs[i], "client_streaming") # RegisteredMethods[j].client_streaming
          \/ Setting(LastRpcs[i], "server_streaming") # RegisteredMethods[j].server_streaming

\* C17: a service of the name and package of a registered service whose
\* method names differ, or whose same-named method differs in input type,
\* output type, client-streaming or server-streaming flag, raises TypeError
\* and leaves the registered service as it was
C17_ServiceConflict ==
  MeetsRegisteredService /\ ServiceDiffers =>
    /\ last.out.err = "TypeError"
    /\ last.out.merge = "conflict"
    /\ pool = last.before


----------------------------------------------------------------------------
(* The fields of the drafted messages (SpecWalk) *)

\* The names the top-level schema declares as fields
DeclaredNames ==
  Keys(GetPairs(last.call.schema, "properties"))
    \cup Keys(GetPairs(last.call.schema, "optionalProperties"))

\* The last call converted a top-level message whose schema allows
\* additional fields
AllowsAdditional ==
  /\ Called
  /\ has_additional_fields(last.call.adapter, last.call.schema)

\* C18: the message of a node that allows additional fields ends with the
\* one field named additionalProperties, of the Struct type, whose number is
\* greater than the number of every declared field, and the file of Struct
\* is among the imports; when a declared field has that name already, the
\* conversion fails in the walk with a ValueError instead
C18_AdditionalFields ==
  /\ AllowsAdditional /\ Drafted /\ TopIsMessage =>
       LET k == Len(TopMessage.field)
       IN  /\ k >= 1
           /\ TopMessage.field[k].name = AdditionalProperties
           /\ TopMessage.field[k].type = TYPE_MESSAGE
           /\ TopMessage.field[k].type_name.path = Struct.full_name
           /\ \A i \in 1..(k - 1) :
                /\ TopMessage.field[i].name # AdditionalProperties
                /\ TopMessage.field[i].number < TopMessage.field[k].number
           /\ StructFile \in Range(Draft.dependency)
  /\ AllowsAdditional /\ last.out.stage # "validate"
       /\ AdditionalProperties \in DeclaredNames =>
       /\ last.out.err = "ValueError"
       /\ last.out.stage = "walk"
       /\ last.out.fd_proto.none

\* C19: in every message of a draft no two fields have the same number, and
\* every field is outside the oneofs or a member of one oneof the message
\* declares
C19_MessageDraftInvariant ==
  Drafted =>
    \A m \in FileMessages(Draft) :
      /\ NoDuplicates([i \in DOMAIN m.field |-> m.field[i].number])
      /\ \A i \in DOMAIN m.field :
           \/ m.field[i].oneof_index = NoOneof
           \/ m.field[i].oneof_index \in 0..(Len(m.oneof_decl) - 1)


----------------------------------------------------------------------------
(* The types of map entries (SpecWalk) *)

\* The map entry messages directly under a message
EntriesOf(m) == {e \in Range(m.nested_type) : e.map_entry}

\* The names of the messages and enums directly under a message
ChildNames(m) ==
  {m.nested_type[i].name : i \in DOMAIN m.nested_type}
    \cup {m.enum_type[i].name : i \in DOMAIN m.enum_type}

\* The names a type has inside a map entry before it is moved: the class
\* name of a class, else the upper camel case of "value", with the suffix
\* Entry for a map
PlainNames ==
  {ClassName(n) : n \in {x \in Nodes(last.call.adapter, last.call.schema) : IsClass(x)}}
    \cup {to_upper_camel(<<"v", "a", "l", "u", "e">>),
          to_upper_camel(<<"v", "a", "l", "u", "e">>) \o EntrySuffix}

\* The names of the descriptors a schema can refer to: a map entry names
\* such a value type by the descriptor's name, and nothing is nested for it
DescriptorNames == {Timestamp.name, Struct.name, ExtMessage.name, ExtEnum.name}

\* The field's type is one the conversion made for the schema, not a
\* descriptor given by the schema
IsLocalRef(g) ==
  /\ IsTypeRef(g)
  /\ g.type_name.path \notin {<<n>> : n \in DescriptorNames}

\* C20: in a draft no map entry nested in a message has nested messages or
\* enums of its own, and every field of such an entry that names a local
\* type names a direct child of the enclosing message, called
\* UpperCamel(field name + "_" + plain name) after the map field
C20_MapEntryHoisting ==
  Drafted =>
    \A m \in FileMessages(Draft) :
      \A e \in EntriesOf(m) :
        /\ e.nested_type = <<>>
        /\ e.enum_type = <<>>
        /\ \A j \in DOMAIN e.field :
             IsLocalRef(e.field[j]) =>
               /\ e.field[j].type_name.path[1] \in ChildNames(m)
               /\ \E i \in DOMAIN m.field, plain_name \in PlainNames :
                    /\ m.field[i].type_name = TypeName(FALSE, <<e.name>>)
                    /\ e.field[j].type_name.path[1]
                         = to_upper_camel(JoinUnderscore(m.field[i].name, plain_name))


----------------------------------------------------------------------------
(* Explicit and synthetic oneofs of the top-level message (SpecWalk) *)

\* The members the i-th declared field expands to, none when it is no oneof
MembersOf(i) == get_oneof_fields(last.call.adapter, TopFields[i][2])

\* The number of field descriptors the first i declared fields produce
RECURSIVE ProducedBefore(_)
ProducedBefore(i) ==
  IF i = 0 THEN 0
  ELSE ProducedBefore(i - 1) + (IF MembersOf(i) # <<>> THEN Len(MembersOf(i)) ELSE 1)

\* The number of explicit oneofs among the first i declared fields
RECURSIVE OneofsBefore(_)
OneofsBefore(i) ==
  IF i = 0 THEN 0
  ELSE OneofsBefore(i - 1) + (IF MembersOf(i) # <<>> THEN 1 ELSE 0)

\* C21: every field produced by expanding an explicit oneof is, in the
\* final message, a member of that oneof: the optional step has not moved
\* it to a oneof _<name>; and every oneof after the explicit ones has
\* exactly one member
C21_ExplicitMembersKept ==
  TopIsMessage =>
    /\ \A i \in DOMAIN TopFields :
         \A j \in DOMAIN MembersOf(i) :
           TopMessage.field[ProducedBefore(i - 1) + j].oneof_index = OneofsBefore(i - 1)
    /\ \A o \in OneofsBefore(Len(TopFields))..(Len(TopMessage.oneof_decl) - 1) :
         Cardinality({k \in DOMAIN TopMessage.field :
                        TopMessage.field[k].oneof_index = o}) = 1


----------------------------------------------------------------------------
(* Conversions into a pool that also holds files compiled by protoc          *)
(* (SpecProtoc): AddSerializedFile registers a compiled file as it is, its   *)
(* imports in the order of the .proto file's import lines.                   *)

\* message Fo { google.protobuf.Timestamp foo = 1;
\*              google.protobuf.Struct additionalProperties = 2; }
ProtocMessage(name, foo_type) ==
  DescriptorProto(name,
    <<FieldDescriptorProto(n_foo, 1, LABEL_OPTIONAL, foo_type.type, foo_type.type_name, NoOneof),
      FieldDescriptorProto(<<"additionalProperties">>, 2, LABEL_OPTIONAL, TYPE_MESSAGE,
                           TypeName(TRUE, GoogleProtobuf \o << <<"Struct">> >>), NoOneof)>>,
    <<>>, <<>>, <<>>, FALSE)

ProtocTimestamp ==
  [type |-> TYPE_MESSAGE, type_name |-> TypeName(TRUE, GoogleProtobuf \o << <<"Timestamp">> >>)]

ProtocString == [type |-> TYPE_STRING, type_name |-> NoTypeName]

\* The compiled files: fo.proto and f_o.proto importing struct.proto and
\* timestamp.proto in either order, with a timestamp or a string field
ProtocFiles ==
  {FileDescriptorProto(FileName(n), PackageP, deps, <<ProtocMessage(n, t)>>, <<>>) :
     n \in {Fo, f_o},
     deps \in {<<StructFile, TimestampFile>>, <<TimestampFile, StructFile>>},
     t \in {ProtocTimestamp, ProtocString}}

ProtocJtdSchemas ==
  { JObject(<< <<n_foo, JType("timestamp")>> >>, <<>>, TRUE),
    JObject(<< <<n_foo, JType("string")>> >>, <<>>, TRUE),
    JObject(<< <<n_foo, JType("timestamp")>> >>, <<>>, FALSE),
    JObject(<<>>, << <<n_foo, JType("timestamp")>> >>, FALSE),
    JObject(<< <<n_foo, JType("timestamp")>>, <<n_bar, JRef(ExtMessage)>> >>, <<>>, FALSE),
    JObject(<< <<n_foo, JRef(ExtMessage)>>, <<n_bar, JType("timestamp")>> >>, <<>>, FALSE) }

ProtocJtdCalls == {Call(JTD, n, PackageP, s) : n \in {Fo, f_o}, s \in ProtocJtdSchemas}

\* descriptor_pool.AddSerializedFile(protoc_sample): a file of a new name
\* is registered; under a name the pool holds the call changes nothing
AddSerializedFile ==
  \E fd \in ProtocFiles :
    /\ ~FindFileByName(pool, fd.name)
    /\ FileBuilds(fd, pool)
    /\ pool' = PoolAdd(pool, fd)
    /\ origin' = (fd.name :> NoOrigin(fd.name)) @@ origin
    /\ last' = NoCall
    /\ UNCHANGED input

\* jtd_to_proto(name, package, jtd_def, descriptor_pool=pool)
ProtocJtd ==
  \E call \in ProtocJtdCalls :
    /\ Convert(call)
    /\ UNCHANGED input

NextProtoc == AddSerializedFile \/ ProtocJtd

SpecProtoc == Init /\ [][NextProtoc]_vars

\* The registered file the last call's draft was compared with
Registered == CopyToProto(last.before.files[LastFile])

\* The draft met a registered file of its name
MetRegisteredFile == Drafted /\ LastFile \in DOMAIN last.before.files

SameNames(deps_1, deps_2) ==
  /\ Len(deps_1) = Len(deps_2)
  /\ {deps_1[i] : i \in DOMAIN deps_1} = {deps_2[i] : i \in DOMAIN deps_2}

\* The registered file imports the draft's files in another order and is
\* the draft's equal in everything else the comparison looks at
DiffersInOrderOnly ==
  /\ MetRegisteredFile
  /\ SameNames(Registered.dependency, Draft.dependency)
  /\ Registered.dependency # Draft.dependency
  /\ _are_same_file_descriptors(Draft, [Registered EXCEPT !.dependency = Draft.dependency])

\* C22: a registered file whose dependencies are the candidate's file names
\* in a different order is judged to have the same dependencies: when the
\* two files differ in nothing else, the registration is a no-op.
C22_DependencyOrderIgnored ==
  DiffersInOrderOnly => (last.out.err = "" /\ last.out.merge = "noop")


----------------------------------------------------------------------------
(* The imports of a conversion (SpecWalk) *)

\* The descriptors a node's concrete type refers to, directly or through the
\* type mapping
ReferencedBy(ad, node) ==
  LET concrete_type == get_concrete_type(ad, node)
      MappedTo(t) == IF InTypeMapping(ad, t) THEN type_mapping(ad)[MappingKey(t)] ELSE t
      DescriptorIn(d) == IF d.none THEN {} ELSE {d.v}
  IN  IF concrete_type.none THEN {}
      ELSE DescriptorIn(get_descriptor(MappedTo(concrete_type.v)))

ReferencedDescriptors(ad, schema) == UNION {ReferencedBy(ad, n) : n \in Nodes(ad, schema)}

\* A node that is converted to a message and allows additional fields
AllowsAdditionalFields(ad, node) ==
  /\ get_concrete_type(ad, node).none
  /\ ~Has(node, "values") /\ ~Has(node, "dict")
  /\ get_enum_vals(ad, node).none
  /\ ~get_message_fields(ad, node).none
  /\ has_additional_fields(ad, node)

ExpectedImports(ad, schema) ==
  {d.file : d \in ReferencedDescriptors(ad, schema)}
  \cup (IF \E n \in Nodes(ad, schema) : AllowsAdditionalFields(ad, n)
        THEN {Struct.file} ELSE {})

PositionOf(file) == CHOOSE i \in DOMAIN FilesInOrder : FilesInOrder[i] = file

\* The list is in str order and names no file twice
StrictlySorted(files) ==
  \A i, j \in DOMAIN files : i < j => PositionOf(files[i]) < PositionOf(files[j])

Succeeded == Called /\ last.out.err = ""

\* C23: at the end of a successful conversion the dependency list is the
\* sorted, duplicate-free set of the owning files of every external message
\* or enum descriptor the schema references (and Struct's file when a
\* message allows additional fields), and the file of every referenced
\* descriptor of another pool is present in the target pool.
C23_ImportSet ==
  Succeeded =>
    /\ StrictlySorted(Draft.dependency)
    /\ Range(Draft.dependency) = ExpectedImports(last.call.adapter, last.call.schema)
    /\ \A d \in ReferencedDescriptors(last.call.adapter, last.call.schema) :
         d.pool # TargetPoolId => d.file \in DOMAIN pool.files

\* A successful conversion that references a descriptor of another pool
\* whose file the target pool did not hold, and imports two files
C23_Witness ==
  /\ Succeeded
  /\ Len(Draft.dependency) >= 2
  /\ \E d \in ReferencedDescriptors(last.call.adapter, last.call.schema) :
       /\ d.pool # TargetPoolId
       /\ d.file \notin DOMAIN last.before.files
       /\ d.file \in DOMAIN pool.files


----------------------------------------------------------------------------
(* Unsupported schema nodes (SpecWalk) *)

\* A node that only wraps other nodes: a list, a oneof, an annotation
Wraps(node) ==
  \E key \in {"elements", "discriminator", "list", "union", "annotated"} : Has(node, key)

\* No adapter method recognises the node (the None of an Optional is
\* unwrapped, never converted)
Unrecognised(ad, node) ==
  /\ ~Wraps(node) /\ node # NoneType
  /\ get_concrete_type(ad, node).none
  /\ ~Has(node, "values") /\ ~Has(node, "dict")
  /\ get_enum_vals(ad, node).none
  /\ get_message_fields(ad, node).none

Unsupported(ad, node) == Unrecognised(ad, node) /\ ~has_additional_fields(ad, node)

AdditionalOnly(ad, node) == Unrecognised(ad, node) /\ has_additional_fields(ad, node)

\* C24: a schema with a node that yields no concrete type, no map, no enum
\* values and no message fields and does not allow additional fields is
\* always rejected and produces no file; a node that allows additional
\* fields but declares no fields is not rejected by the walk.
C24_UnsupportedShape ==
  Called =>
    /\ (\E n \in Nodes(last.call.adapter, last.call.schema) :
          Unsupported(last.call.adapter, n))
         => (last.out.err # "" /\ last.out.fd_proto.none)
    /\ (~last.call.validate /\ AdditionalOnly(last.call.adapter, last.call.schema))
         => last.out.stage # "walk"

\* The first half alone
UnsupportedRaises ==
  (Called /\ \E n \in Nodes(last.call.adapter, last.call.schema) :
               Unsupported(last.call.adapter, n))
    => (last.out.err = "ValueError" /\ last.out.fd_proto.none)


----------------------------------------------------------------------------
(* The enums of a draft (SpecWalk) *)

SharesNumber(e) ==
  \E i, j \in DOMAIN e.value : i # j /\ e.value[i].number = e.value[j].number

\* C25: a produced enum allows aliases if and only if at least two of its
\* entries, the synthesized placeholder included, have the same number.
C25_EnumAliasFlag ==
  Drafted => \A e \in FileEnums(Draft) : e.allow_alias <=> SharesNumber(e)

\* An enum with the placeholder put first and two members of one number,
\* flagged; and (in another run) an enum with distinct numbers out of
\* sequence, not flagged
C25_Witness ==
  /\ Drafted
  /\ \E e \in FileEnums(Draft) :
       /\ Len(e.value) = 3
       /\ e.value[1].name = PLACEHOLDER_UNSET
       /\ e.value[2].number = e.value[3].number
       /\ e.allow_alias

C25_WitnessDistinct ==
  /\ Drafted
  /\ \E e \in FileEnums(Draft) :
       /\ Len(e.value) = 2
       /\ e.value[1].number = 2 /\ e.value[2].number = 0
       /\ ~e.allow_alias


UniqueNames(e) ==
  \A i, j \in DOMAIN e.value : e.value[i].name = e.value[j].name => i = j

\* C26: in every enum the converter produces, the enums with a synthesized
\* PLACEHOLDER_UNSET entry included, no two entries have the same name.
C26_EnumNamesUnique ==
  Drafted => \A e \in FileEnums(Draft) : UniqueNames(e)

\* The same of the enums of the files a conversion registers
RegisteredEnumNamesUnique ==
  \A f \in DOMAIN pool.files : \A e \in FileEnums(CopyToProto(pool.files[f])) : UniqueNames(e)


----------------------------------------------------------------------------
(* What a no-op registration leaves uncompared (SpecProtoc) *)

\* The draft was judged equal to the registered file of its name
JudgedEqual == MetRegisteredFile /\ last.out.merge = "noop"

Unresolvable == <<"?">>

\* The type references of a message and of the messages nested in it: the
\* message, the field and the qualified name of the type referred to
RECURSIVE TypeRefs(_, _, _)
TypeRefs(scope, m, syms) ==
  LET me == scope \o <<m.name>>
  IN  {[message |-> me, field |-> m.field[i].name,
        type |-> IF CanResolve(me, m.field[i].type_name, syms)
                 THEN ResolvedName(me, m.field[i].type_name, syms)
                 ELSE Unresolvable] :
         i \in {k \in DOMAIN m.field : IsTypeRef(m.field[k])}}
      \cup UNION {TypeRefs(me, m.nested_type[i], syms) : i \in DOMAIN m.nested_type}

FileTypeRefs(fd, p) ==
  UNION {TypeRefs(fd.package, fd.message_type[i], VisibleSymbols(fd, p)) :
           i \in DOMAIN fd.message_type}

\* C27: whenever the registration judges the candidate equal to the
\* registered file and adds nothing, every message-typed or enum-typed
\* field of the candidate refers to the type the same-named field of the
\* registered file refers to.
C27_NoopSameTypes ==
  JudgedEqual =>
    \A c \in FileTypeRefs(Draft, last.before) :
      \A r \in FileTypeRefs(Registered, last.before) :
        (c.message = r.message /\ c.field = r.field) => c.type = r.type


NoOneofName == <<>>

\* The oneof each field of a message (and of the messages nested in it)
\* belongs to, by name
RECURSIVE OneofOfFields(_, _)
OneofOfFields(scope, m) ==
  LET me == scope \o <<m.name>>
  IN  {[message |-> me, field |-> m.field[i].name,
        oneof |-> IF m.field[i].oneof_index = NoOneof THEN NoOneofName
                  ELSE m.oneof_decl[m.field[i].oneof_index + 1]] : i \in DOMAIN m.field}
      \cup UNION {OneofOfFields(me, m.nested_type[i]) : i \in DOMAIN m.nested_type}

\* The oneofs the messages declare
RECURSIVE DeclaredOneofs(_, _)
DeclaredOneofs(scope, m) ==
  LET me == scope \o <<m.name>>
  IN  {[message |-> me, oneof |-> m.oneof_decl[o]] : o \in DOMAIN m.oneof_decl}
      \cup UNION {DeclaredOneofs(me, m.nested_type[i]) : i \in DOMAIN m.nested_type}

FileOneofOfFields(fd) ==
  UNION {OneofOfFields(fd.package, fd.message_type[i]) : i \in DOMAIN fd.message_type}

FileDeclaredOneofs(fd) ==
  UNION {DeclaredOneofs(fd.package, fd.message_type[i]) : i \in DOMAIN fd.message_type}

\* C28: whenever the registration judges the candidate equal to the
\* registered file and adds nothing, the messages of both declare the same
\* oneof names and every same-named field is in the same oneof, or in none,
\* in both; a schema that makes a required field optional is therefore not
\* judged equal.
C28_NoopSameOneofs ==
  JudgedEqual =>
    /\ FileDeclaredOneofs(Draft) = FileDeclaredOneofs(Registered)
    /\ \A c \in FileOneofOfFields(Draft) : \A r \in FileOneofOfFields(Registered) :
         (c.message = r.message /\ c.field = r.field) => c.oneof = r.oneof


\* C29: in every message the converter produces the field names are
\* pairwise distinct, the lower-cased names of the fields made by oneof
\* expansion and the appended additionalProperties field included.
C29_FieldNamesUnique ==
  Drafted =>
    \A m \in FileMessages(Draft) :
      \A i, j \in DOMAIN m.field : m.field[i].name = m.field[j].name => i = j


----------------------------------------------------------------------------
(* Two safe registrations of same-named files running concurrently against  *)
(* one pool (SpecRace). safe_add_fd_to_pool takes no lock: between a call's  *)
(* FindFileByName and its Add the other call may run. Each lookup and each   *)
(* Add is one step. input holds the two candidate files, last the position   *)
(* of each call ("find", "add", "done") and the exception it raised.         *)

Threads == {"A", "B"}

RaceNames == {Fo, FO}

RaceCalls == {Call(JTD, n, PackageP, s) : n \in RaceNames, s \in MergeJtdSchemas}

\* The file a conversion call drafts (self.fd_proto before registration)
DraftOf(call) ==
  LET Drafts(out) == out.fd_proto.v
  IN  Drafts(ConverterBase(call.adapter, call.name, call.package, call.schema,
                           call.validate, temp_dpool))

RaceCandidates == {DraftOf(call) : call \in RaceCalls}

InitRace ==
  /\ pool = temp_dpool
  /\ origin = [f \in DOMAIN temp_dpool.files |-> NoOrigin(f)]
  /\ last = [kind |-> "race", pc |-> [t \in Threads |-> "find"],
             err |-> [t \in Threads |-> ""]]
  /\ input \in [Threads -> RaceCandidates]

\* descriptor_pool.Add(fd_proto) as one step: a file of a name the pool
\* holds is taken silently when it is the registered file's copy and is a
\* TypeError otherwise; a new file is added when it builds
Add(fd_proto, descriptor_pool) ==
  IF FindFileByName(descriptor_pool, fd_proto.name)
  THEN IF CopyToProto(descriptor_pool.files[fd_proto.name]) = fd_proto
       THEN [err |-> "", why |-> "added", pool |-> descriptor_pool,
             ops |-> <<PoolOp("Add", fd_proto.name)>>]
       ELSE [err |-> "TypeError", why |-> "add_failed", pool |-> descriptor_pool,
             ops |-> <<PoolOp("Add", fd_proto.name)>>]
  ELSE safe_add_new(fd_proto, descriptor_pool)

\* The try block of safe_add_fd_to_pool: the lookup, and when the file is
\* found the comparison, which ends the call
FindStep(t) ==
  /\ last.kind = "race"
  /\ last.pc[t] = "find"
  /\ IF FindFileByName(pool, input[t].name)
     THEN last' = [last EXCEPT !.pc[t] = "done",
                               !.err[t] = safe_add_fd_to_pool(input[t], pool).err]
     ELSE last' = [last EXCEPT !.pc[t] = "add"]
  /\ UNCHANGED <<pool, origin, input>>

\* The except KeyError block: descriptor_pool.Add, whatever the pool holds
\* by now
AddStep(t) ==
  /\ last.kind = "race"
  /\ last.pc[t] = "add"
  /\ LET Returned(r) ==
           /\ pool' = r.pool
           /\ origin' = [f \in DOMAIN r.pool.files |->
                           IF f \in DOMAIN origin THEN origin[f] ELSE NoOrigin(f)]
           /\ last' = [last EXCEPT !.pc[t] = "done", !.err[t] = r.err]
     IN  Returned(Add(input[t], pool))
  /\ UNCHANGED input

RaceFind == \E t \in Threads : FindStep(t)

RaceAdd == \E t \in Threads : AddStep(t)

NextRace == RaceFind \/ RaceAdd

SpecRace == InitRace /\ [][NextRace]_vars

\* Both calls have returned or raised
BothDone == last.kind = "race" /\ \A t \in Threads : last.pc[t] = "done"

\* The exceptions and the pool of the two calls made one after the other
Sequential(first, second) ==
  LET Second(r1, r2) ==
        [err |-> (first :> r1.err) @@ (second :> r2.err), pool |-> r2.pool]
      First(r1) == Second(r1, safe_add_fd_to_pool(input[second], r1.pool))
  IN  First(safe_add_fd_to_pool(input[first], temp_dpool))

SequentialOutcomes == {Sequential("A", "B"), Sequential("B", "A")}

\* C30: with every lookup and every Add atomic, the outcomes of two
\* concurrent safe registrations of same-named files and the pool they
\* leave are those of one of the two sequential orders, whatever the
\* interleaving of their steps; two candidates the comparison judges equal
\* never end in a conflict error.
C30_InterleavingIndependence ==
  BothDone =>
    /\ \E s \in SequentialOutcomes : s.err = last.err /\ s.pool = pool
    /\ _are_same_file_descriptors(input["A"], input["B"])
         => \A t \in Threads : last.err[t] = ""

====
